---- MODULE Spec2Model ----
(***************************************************************************)
(* The BSON archives of cereal (include/cereal/archives/bson.hpp):        *)
(* BSONOutputArchive, which turns traversal calls into BSON documents     *)
(* through a bsoncxx builder, and BSONInputArchive, which answers the     *)
(* same traversal calls from the documents it reads back.                 *)
(*                                                                         *)
(* Each archive is a record of its data members; every member function is *)
(* an operator from the archive before the call to the archive after it.  *)
(* The actions are the calls a serialization driver makes.                *)
(***************************************************************************)
EXTENDS Integers, Sequences, FiniteSets, TLC

\* ------------------------------------------------------------------ bounds
\* Values (containers and scalars) saved in one run.
MaxNodes == 4
\* Depth of the output archive's node stack, Root included.
MaxDepth == 4
\* Root-level containers saved in one run.
MaxRoots == 2

\* Field names the driver gives with setNextName.
Names == {"a", "b"}
\* itsNextName == nullptr
nullptr == "<nullptr>"

\* --------------------------------------------------------------- sequences
Top(s) == s[Len(s)]
Pop(s) == SubSeq(s, 1, Len(s) - 1)
SetTop(s, v) == [s EXCEPT ![Len(s)] = v]

Digit == <<"0", "1", "2", "3", "4", "5", "6", "7", "8", "9">>

\* std::to_string of an unsigned integer
RECURSIVE to_string(_)
to_string(n) ==
  IF n < 10 THEN Digit[n + 1] ELSE to_string(n \div 10) \o Digit[(n % 10) + 1]

\* ---------------------------------------------------------------- elements
\* A BSON element: key, type and payload. A scalar's payload is val, a
\* document's or an array's payload is sub, the sequence of its elements.
Element(k, t, v, s) == [key |-> k, type |-> t, val |-> v, sub |-> s]

\* The invalid (default-constructed) element.
InvalidElement == Element("", "invalid", 0, <<>>)

\* The BSON type saveValue appends for each C++ type, which is also the type
\* the loadValue overload of that C++ type extracts.
BsonType(kind) ==
  CASE kind = "bool" -> "k_bool"
    [] kind = "int32_t" -> "k_int32"
    [] kind = "int64_t" -> "k_int64"
    [] kind = "double" -> "k_double"
    [] kind = "string" -> "k_utf8"
    [] kind = "time_point" -> "k_date"

\* ----------------------------------------------------------------- builder
\* bsoncxx::builder::core: a stack of open containers over the root
\* document, the key waiting for its value, and the calls received so far.
\* A call the builder rejects raises an exception (thrown) and changes
\* nothing else.
BuilderFrame(isArray, k) == [isArray |-> isArray, key |-> k, elems |-> <<>>]

Call(op, arg) == [op |-> op, arg |-> arg]

\* itsBuilder{false}: the root is a document
BSONBuilder ==
  [stack |-> <<BuilderFrame(FALSE, "")>>,
   userKey |-> nullptr,
   calls |-> <<>>,
   thrown |-> FALSE]

Logged(b, op, arg) == [b EXCEPT !.calls = Append(@, Call(op, arg))]

Rejected(b, op, arg) == [Logged(b, op, arg) EXCEPT !.thrown = TRUE]

\* The key of the next value: the position in an array, the waiting key in
\* a document.
next_key(b) ==
  IF Top(b.stack).isArray THEN to_string(Len(Top(b.stack).elems))
  ELSE b.userKey

NeedsKey(b) == ~Top(b.stack).isArray /\ b.userKey = nullptr

\* A key set while another still waits for its value replaces it.
key_owned(b, name) ==
  IF Top(b.stack).isArray THEN Rejected(b, "key_owned", name)
  ELSE [Logged(b, "key_owned", name) EXCEPT !.userKey = name]

append(b, type, v) ==
  IF NeedsKey(b) THEN Rejected(b, "append", type)
  ELSE [Logged(b, "append", type) EXCEPT
          !.stack = SetTop(@, [Top(@) EXCEPT
                       !.elems = Append(@, Element(next_key(b), type, v, <<>>))]),
          !.userKey = nullptr]

OpenContainer(b, op, isArray) ==
  IF NeedsKey(b) THEN Rejected(b, op, "")
  ELSE [Logged(b, op, "") EXCEPT
          !.stack = Append(@, BuilderFrame(isArray, next_key(b))),
          !.userKey = nullptr]

open_document(b) == OpenContainer(b, "open_document", FALSE)

open_array(b) == OpenContainer(b, "open_array", TRUE)

CloseContainer(b, op, isArray, type) ==
  IF Len(b.stack) = 1 \/ Top(b.stack).isArray # isArray THEN Rejected(b, op, "")
  ELSE LET f == Top(b.stack)
           rest == Pop(b.stack)
       IN [Logged(b, op, "") EXCEPT
             !.stack = SetTop(rest, [Top(rest) EXCEPT
                          !.elems = Append(@, Element(f.key, type, 0, f.elems))])]

close_document(b) == CloseContainer(b, "close_document", FALSE, "k_document")

close_array(b) == CloseContainer(b, "close_array", TRUE, "k_array")

\* The root document as built so far.
view_document(b) == b.stack[1].elems

clear(b) ==
  [Logged(b, "clear", "") EXCEPT
     !.stack = <<BuilderFrame(FALSE, "")>>,
     !.userKey = nullptr]

\* ------------------------------------------------------------- wire format
\* The length in bytes of a document: the 4-byte length, the elements (type
\* byte, key, terminator, payload) and the closing byte.
RECURSIVE ByteLength(_)
ElementLength(e) ==
  1 + Len(e.key) + 1 +
  CASE e.type \in {"k_document", "k_array"} -> ByteLength(e.sub)
    [] e.type \in {"k_int32"} -> 4
    [] e.type \in {"k_int64", "k_double", "k_date"} -> 8
    [] e.type = "k_bool" -> 1
    [] e.type = "k_utf8" -> 4 + e.val + 1    \* a string is modelled by its length

RECURSIVE SumLengths(_)
SumLengths(elems) ==
  IF elems = <<>> THEN 0
  ELSE ElementLength(elems[1]) + SumLengths(Tail(elems))

ByteLength(elems) == 4 + SumLengths(elems) + 1

\* One document on the stream: where it begins, the length its first four
\* bytes give, and its elements.
Chunk(at, elems) == [at |-> at, docsize |-> ByteLength(elems), elems |-> elems]

StreamLength(stream) ==
  IF stream = <<>> THEN 0 ELSE Top(stream).at + Top(stream).docsize

\* itsWriteStream.write(view_document().data(), view_document().length())
write(stream, elems) == Append(stream, Chunk(StreamLength(stream), elems))

\* ------------------------------------------------------- BSONOutputArchive
BSONOutputArchive ==
  [itsBuilder |-> BSONBuilder,
   itsWriteStream |-> <<>>,
   itsNextName |-> nullptr,
   itsNameCounter |-> <<0>>,
   itsNodeStack |-> <<"Root">>]

Out_setNextName(ar, name) == [ar EXCEPT !.itsNextName = name]

\* Out_writeName with the name counter advanced by every write, not only by
\* the unnamed ones.
Out_writeName_CountAll(ar) ==
  LET top == Top(ar.itsNodeStack)
      a1 == IF top = "StartArray"
            THEN [ar EXCEPT !.itsBuilder = open_array(@),
                            !.itsNodeStack = SetTop(@, "InArray")]
            ELSE IF top = "StartObject"
            THEN [ar EXCEPT !.itsNodeStack = SetTop(@, "InObject"),
                            !.itsBuilder = IF Len(ar.itsNodeStack) > 2
                                           THEN open_document(@) ELSE @]
            ELSE ar
      nodeType == Top(a1.itsNodeStack)
  IN IF nodeType = "InArray" THEN a1
     ELSE IF a1.itsNextName = nullptr
     THEN [a1 EXCEPT
             !.itsBuilder = key_owned(@, "value" \o to_string(Top(a1.itsNameCounter))),
             !.itsNameCounter = SetTop(@, Top(@) + 1)]
     ELSE [a1 EXCEPT
             !.itsBuilder = key_owned(@, a1.itsNextName),
             !.itsNameCounter = SetTop(@, Top(@) + 1),
             !.itsNextName = nullptr]

\* Out_writeName without the test of the stack depth: the root-level object
\* is opened in the builder like any other.
Out_writeName_AlwaysOpen(ar) ==
  LET top == Top(ar.itsNodeStack)
      a1 == IF top = "StartArray"
            THEN [ar EXCEPT !.itsBuilder = open_array(@),
                            !.itsNodeStack = SetTop(@, "InArray")]
            ELSE IF top = "StartObject"
            THEN [ar EXCEPT !.itsNodeStack = SetTop(@, "InObject"),
                            !.itsBuilder = open_document(@)]
            ELSE ar
      nodeType == Top(a1.itsNodeStack)
  IN IF nodeType = "InArray" THEN a1
     ELSE IF a1.itsNextName = nullptr
     THEN [a1 EXCEPT
             !.itsBuilder = key_owned(@, "value" \o to_string(Top(a1.itsNameCounter))),
             !.itsNameCounter = SetTop(@, Top(@) + 1)]
     ELSE [a1 EXCEPT
             !.itsBuilder = key_owned(@, a1.itsNextName),
             !.itsNextName = nullptr]

\* Out_writeName with the change of state moved inside the test of the
\* stack depth: the root-level object stays in StartObject.
Out_writeName_NoFlip(ar) ==
  LET top == Top(ar.itsNodeStack)
      a1 == IF top = "StartArray"
            THEN [ar EXCEPT !.itsBuilder = open_array(@),
                            !.itsNodeStack = SetTop(@, "InArray")]
            ELSE IF top = "StartObject" /\ Len(ar.itsNodeStack) > 2
            THEN [ar EXCEPT !.itsNodeStack = SetTop(@, "InObject"),
                            !.itsBuilder = open_document(@)]
            ELSE ar
      nodeType == Top(a1.itsNodeStack)
  IN IF nodeType = "InArray" THEN a1
     ELSE IF a1.itsNextName = nullptr
     THEN [a1 EXCEPT
             !.itsBuilder = key_owned(@, "value" \o to_string(Top(a1.itsNameCounter))),
             !.itsNameCounter = SetTop(@, Top(@) + 1)]
     ELSE [a1 EXCEPT
             !.itsBuilder = key_owned(@, a1.itsNextName),
             !.itsNextName = nullptr]

\* The container kind is decided and the container opened on the first
\* write into it. nodeType is a reference to the top of the stack: it
\* reads the value assigned just before.
Out_writeName(ar) ==
  LET top == Top(ar.itsNodeStack)
      a1 == IF top = "StartArray"
            THEN [ar EXCEPT !.itsBuilder = open_array(@),
                            !.itsNodeStack = SetTop(@, "InArray")]
            ELSE IF top = "StartObject"
            THEN [ar EXCEPT !.itsNodeStack = SetTop(@, "InObject"),
                            !.itsBuilder = IF Len(ar.itsNodeStack) > 2
                                           THEN open_document(@) ELSE @]
            ELSE ar
      nodeType == Top(a1.itsNodeStack)
  IN IF nodeType = "InArray" THEN a1
     ELSE IF a1.itsNextName = nullptr
     THEN [a1 EXCEPT
             !.itsBuilder = key_owned(@, "value" \o to_string(Top(a1.itsNameCounter))),
             !.itsNameCounter = SetTop(@, Top(@) + 1)]
     ELSE [a1 EXCEPT
             !.itsBuilder = key_owned(@, a1.itsNextName),
             !.itsNextName = nullptr]

\* Out_startNode without the push of the new frame's name counter.
Out_startNode_NoCounter(ar) ==
  LET a1 == Out_writeName(ar)
  IN [a1 EXCEPT !.itsNodeStack = Append(@, "StartObject")]

Out_startNode(ar) ==
  LET a1 == Out_writeName(ar)
  IN [a1 EXCEPT !.itsNodeStack = Append(@, "StartObject"),
                !.itsNameCounter = Append(@, 0)]

\* Out_finishNode without the builder's clear() after the write: what was
\* written stays in the builder.
Out_finishNode_NoClear(ar) ==
  LET top == Top(ar.itsNodeStack)
      deep == Len(ar.itsNodeStack) > 2
      b0 == ar.itsBuilder
      b1 == CASE top = "StartArray" -> close_array(open_array(b0))
              [] top = "InArray" -> close_array(b0)
              [] top = "StartObject" ->
                   IF deep THEN close_document(open_document(b0)) ELSE b0
              [] top = "InObject" -> IF deep THEN close_document(b0) ELSE b0
              [] OTHER -> b0
      closedObj == top \in {"StartObject", "InObject"}
      stack == Pop(ar.itsNodeStack)
      a1 == [ar EXCEPT !.itsBuilder = b1,
                       !.itsNodeStack = stack,
                       !.itsNameCounter = Pop(@)]
  IN IF closedObj /\ Top(stack) = "Root"
     THEN [a1 EXCEPT
             !.itsWriteStream = write(@, view_document(b1)),
             !.itsBuilder = Logged(b1, "view_document", "")]
     ELSE a1

\* Out_finishNode without the open of a container that had no child: only
\* the containers writeName has opened are closed.
Out_finishNode_SkipEmpty(ar) ==
  LET top == Top(ar.itsNodeStack)
      deep == Len(ar.itsNodeStack) > 2
      b0 == ar.itsBuilder
      b1 == CASE top = "InArray" -> close_array(b0)
              [] top = "InObject" -> IF deep THEN close_document(b0) ELSE b0
              [] OTHER -> b0
      closedObj == top \in {"StartObject", "InObject"}
      stack == Pop(ar.itsNodeStack)
      a1 == [ar EXCEPT !.itsBuilder = b1,
                       !.itsNodeStack = stack,
                       !.itsNameCounter = Pop(@)]
  IN IF closedObj /\ Top(stack) = "Root"
     THEN [a1 EXCEPT
             !.itsWriteStream = write(@, view_document(b1)),
             !.itsBuilder = clear(Logged(b1, "view_document", ""))]
     ELSE a1

\* Out_finishNode with a break after the open of an array that had no
\* element, in place of the fall through to its close.
Out_finishNode_NoFallThrough(ar) ==
  LET top == Top(ar.itsNodeStack)
      deep == Len(ar.itsNodeStack) > 2
      b0 == ar.itsBuilder
      b1 == CASE top = "StartArray" -> open_array(b0)
              [] top = "InArray" -> close_array(b0)
              [] top = "StartObject" ->
                   IF deep THEN close_document(open_document(b0)) ELSE b0
              [] top = "InObject" -> IF deep THEN close_document(b0) ELSE b0
              [] OTHER -> b0
      closedObj == top \in {"StartObject", "InObject"}
      stack == Pop(ar.itsNodeStack)
      a1 == [ar EXCEPT !.itsBuilder = b1,
                       !.itsNodeStack = stack,
                       !.itsNameCounter = Pop(@)]
  IN IF closedObj /\ Top(stack) = "Root"
     THEN [a1 EXCEPT
             !.itsWriteStream = write(@, view_document(b1)),
             !.itsBuilder = clear(Logged(b1, "view_document", ""))]
     ELSE a1

\* The switch falls through from StartArray to InArray and from StartObject
\* to InObject; closedObj is set in the object cases only.
Out_finishNode(ar) ==
  LET top == Top(ar.itsNodeStack)
      deep == Len(ar.itsNodeStack) > 2
      b0 == ar.itsBuilder
      b1 == CASE top = "StartArray" -> close_array(open_array(b0))
              [] top = "InArray" -> close_array(b0)
              [] top = "StartObject" ->
                   IF deep THEN close_document(open_document(b0)) ELSE b0
              [] top = "InObject" -> IF deep THEN close_document(b0) ELSE b0
              [] OTHER -> b0
      closedObj == top \in {"StartObject", "InObject"}
      stack == Pop(ar.itsNodeStack)
      a1 == [ar EXCEPT !.itsBuilder = b1,
                       !.itsNodeStack = stack,
                       !.itsNameCounter = Pop(@)]
  IN IF closedObj /\ Top(stack) = "Root"
     THEN [a1 EXCEPT
             !.itsWriteStream = write(@, view_document(b1)),
             !.itsBuilder = clear(Logged(b1, "view_document", ""))]
     ELSE a1

\* Out_saveValue consuming the pending name, as writeName does.
Out_saveValue_ConsumeName(ar, kind, v) ==
  [ar EXCEPT !.itsBuilder = append(@, BsonType(kind), v),
             !.itsNextName = nullptr]

Out_saveValue(ar, kind, v) ==
  [ar EXCEPT !.itsBuilder = append(@, BsonType(kind), v)]

\* Out_makeArray pushing the StartArray frame instead of assigning it to
\* the top of the stack.
Out_makeArray_Push(ar) == [ar EXCEPT !.itsNodeStack = Append(@, "StartArray")]

Out_makeArray(ar) == [ar EXCEPT !.itsNodeStack = SetTop(@, "StartArray")]

\* ~BSONOutputArchive: every statement of its body is commented out, so
\* nothing is written and the members go as they are.
Out_destructor(ar) == ar

\* -------------------------------------------------------------------- views
Valid(e) == e.type # "invalid"

\* document::view::operator[]: the first element with the key, or the
\* invalid element.
RECURSIVE Find(_, _)
Find(elems, name) ==
  IF elems = <<>> THEN InvalidElement
  ELSE IF elems[1].key = name THEN elems[1]
  ELSE Find(Tail(elems), name)

\* An array iterator is a position, Len + 1 being end(). Dereferencing
\* end() gives the invalid element, and incrementing end() leaves it there.
begin == 1

Deref(arr, it) == IF it <= Len(arr) THEN arr[it] ELSE InvalidElement

Incr(arr, it) == IF it <= Len(arr) THEN it + 1 ELSE it

\* std::distance(begin(), end())
distance(arr) == Len(arr)

\* -------------------------------------------------------- BSONInputArchive
\* What a call ended with: a normal return, or the exception it threw.
Returned == "returned"

LookupError == "cereal::Exception: No element found with the key"

BoundsError == "cereal::Exception: Invalid element found in array, or array is out of bounds"

NotContainer == "cereal::Exception: Node requested is neither document nor array"

NotInArray == "cereal::Exception: Requesting a size tag when not in an array"

TypeMismatch == "bsoncxx::exception: need element of another type"

UnsetElement == "bsoncxx::exception: unset element"

\* The constructor's loop: while tellg() < streamLength, read the document
\* that begins at tellg(), whose first four bytes give its size, and move
\* tellg() on by that size.
RECURSIVE CollectViews(_, _, _)
CollectViews(stream, tellg, views) ==
  IF ~(tellg < StreamLength(stream)) THEN views
  ELSE LET doc == CHOOSE c \in {stream[k] : k \in 1..Len(stream)} : c.at = tellg
       IN CollectViews(stream, tellg + doc.docsize, Append(views, doc.elems))

\* outcome, value and size are what the last call gave its caller; searches
\* counts the executions of search() since construction.
BSONInputArchive(stream) ==
  [itsNextName |-> nullptr,
   bsonViews |-> CollectViews(stream, 0, <<>>),
   curBsonView |-> 1,
   embeddedBsonDocStack |-> <<>>,
   embeddedBsonArrayStack |-> <<>>,
   embeddedBsonArrayIteratorStack |-> <<>>,
   itsNodeStack |-> <<"Root">>,
   outcome |-> Returned,
   value |-> 0,
   size |-> 0,
   searches |-> 0]

Found(ar, e) == [ar |-> ar, elem |-> e, outcome |-> Returned]

Threw(ar, what) == [ar |-> ar, elem |-> InvalidElement, outcome |-> what]

\* One execution of search() that ended as r.
Counted(r) == [r EXCEPT !.ar.searches = @ + 1]

\* LookUp returning the invalid element for a key that is not found,
\* as search() does where it has no resolution.
LookUp_NoThrow(ar, view) ==
  LET elemFromView == Find(view, ar.itsNextName)
  IN IF ~Valid(elemFromView) THEN Found(ar, InvalidElement)
     ELSE Found([ar EXCEPT !.itsNextName = nullptr], elemFromView)

\* The key lookup of search() in one document view.
LookUp(ar, view) ==
  LET elemFromView == Find(view, ar.itsNextName)
  IN IF ~Valid(elemFromView) THEN Threw(ar, LookupError)
     ELSE Found([ar EXCEPT !.itsNextName = nullptr], elemFromView)

\* In_search with the lookup of the InObject case copied unchanged to the
\* InEmbeddedObject case: the name is looked up in the root view.
In_search_RootView(ar) ==
  Counted(
    LET top == Top(ar.itsNodeStack)
    IN IF ar.itsNextName # nullptr
       THEN IF top = "InObject" THEN LookUp(ar, ar.bsonViews[ar.curBsonView])
            ELSE IF top = "InEmbeddedObject"
            THEN LookUp(ar, ar.bsonViews[ar.curBsonView])
            ELSE Found(ar, InvalidElement)
       ELSE IF top = "InEmbeddedArray"
       THEN LET arr == Top(ar.embeddedBsonArrayStack)
                it == Top(ar.embeddedBsonArrayIteratorStack)
                elemFromView == Deref(arr, it)
                a1 == [ar EXCEPT
                         !.embeddedBsonArrayIteratorStack = SetTop(@, Incr(arr, it))]
            IN IF ~Valid(elemFromView) THEN Threw(a1, BoundsError)
               ELSE Found(a1, elemFromView)
       ELSE Found(ar, InvalidElement))

\* In_search without the increment of the array iterator.
In_search_NoAdvance(ar) ==
  Counted(
    LET top == Top(ar.itsNodeStack)
    IN IF ar.itsNextName # nullptr
       THEN IF top = "InObject" THEN LookUp(ar, ar.bsonViews[ar.curBsonView])
            ELSE IF top = "InEmbeddedObject"
            THEN LookUp(ar, Top(ar.embeddedBsonDocStack))
            ELSE Found(ar, InvalidElement)
       ELSE IF top = "InEmbeddedArray"
       THEN LET arr == Top(ar.embeddedBsonArrayStack)
                it == Top(ar.embeddedBsonArrayIteratorStack)
                elemFromView == Deref(arr, it)
            IN IF ~Valid(elemFromView) THEN Threw(ar, BoundsError)
               ELSE Found(ar, elemFromView)
       ELSE Found(ar, InvalidElement))

In_search(ar) ==
  Counted(
    LET top == Top(ar.itsNodeStack)
    IN IF ar.itsNextName # nullptr
       THEN IF top = "InObject" THEN LookUp(ar, ar.bsonViews[ar.curBsonView])
            ELSE IF top = "InEmbeddedObject"
            THEN LookUp(ar, Top(ar.embeddedBsonDocStack))
            ELSE Found(ar, InvalidElement)
       ELSE IF top = "InEmbeddedArray"
       THEN LET arr == Top(ar.embeddedBsonArrayStack)
                it == Top(ar.embeddedBsonArrayIteratorStack)
                elemFromView == Deref(arr, it)
                a1 == [ar EXCEPT
                         !.embeddedBsonArrayIteratorStack = SetTop(@, Incr(arr, it))]
            IN IF ~Valid(elemFromView) THEN Threw(a1, BoundsError)
               ELSE Found(a1, elemFromView)
       ELSE Found(ar, InvalidElement))

In_setNextName(ar, name) == [ar EXCEPT !.itsNextName = name, !.outcome = Returned]

\* In_loadValue taking the payload without the test of the element's type.
In_loadValue_Unchecked(ar, kind) ==
  LET r == In_search(ar)
  IN IF r.outcome # Returned THEN [r.ar EXCEPT !.outcome = r.outcome]
     ELSE IF ~Valid(r.elem) THEN [r.ar EXCEPT !.outcome = UnsetElement]
     ELSE [r.ar EXCEPT !.outcome = Returned, !.value = r.elem.val]

\* element::get_<type>() of the element search() resolved
In_loadValue(ar, kind) ==
  LET r == In_search(ar)
  IN IF r.outcome # Returned THEN [r.ar EXCEPT !.outcome = r.outcome]
     ELSE IF ~Valid(r.elem) THEN [r.ar EXCEPT !.outcome = UnsetElement]
     ELSE IF r.elem.type # BsonType(kind) THEN [r.ar EXCEPT !.outcome = TypeMismatch]
     ELSE [r.ar EXCEPT !.outcome = Returned, !.value = r.elem.val]

\* In_startNode with the node state pushed before the type of the element
\* is looked at.
In_startNode_PushFirst(ar) ==
  LET top == Top(ar.itsNodeStack)
  IN IF top \in {"InObject", "InEmbeddedObject", "InEmbeddedArray"}
     THEN LET r == In_search(ar)
              newNode == r.elem
          IN IF r.outcome # Returned THEN [r.ar EXCEPT !.outcome = r.outcome]
             ELSE IF ~Valid(newNode) THEN [r.ar EXCEPT !.outcome = UnsetElement]
             ELSE IF newNode.type = "k_array"
             THEN [r.ar EXCEPT
                     !.embeddedBsonArrayStack = Append(@, newNode.sub),
                     !.embeddedBsonArrayIteratorStack = Append(@, begin),
                     !.itsNodeStack = Append(@, "InEmbeddedArray"),
                     !.outcome = Returned]
             ELSE IF newNode.type = "k_document"
             THEN [r.ar EXCEPT
                     !.embeddedBsonDocStack = Append(@, newNode.sub),
                     !.itsNodeStack = Append(@, "InEmbeddedObject"),
                     !.outcome = Returned]
             ELSE [r.ar EXCEPT
                     !.itsNodeStack = Append(@, "InEmbeddedObject"),
                     !.outcome = NotContainer]
     ELSE IF top = "Root"
     THEN [ar EXCEPT !.itsNodeStack = Append(@, "InObject"), !.outcome = Returned]
     ELSE [ar EXCEPT !.outcome = Returned]

\* In_startNode executing search() a second time for the element it
\* enters.
In_startNode_SearchTwice(ar) ==
  LET top == Top(ar.itsNodeStack)
  IN IF top \in {"InObject", "InEmbeddedObject", "InEmbeddedArray"}
     THEN LET r0 == In_search(ar)
              r == IF r0.outcome = Returned /\ Valid(r0.elem)
                   THEN Counted(Found(r0.ar, r0.elem))
                   ELSE r0
              newNode == r.elem
          IN IF r.outcome # Returned THEN [r.ar EXCEPT !.outcome = r.outcome]
             ELSE IF ~Valid(newNode) THEN [r.ar EXCEPT !.outcome = UnsetElement]
             ELSE IF newNode.type = "k_document"
             THEN [r.ar EXCEPT
                     !.embeddedBsonDocStack = Append(@, newNode.sub),
                     !.itsNodeStack = Append(@, "InEmbeddedObject"),
                     !.outcome = Returned]
             ELSE IF newNode.type = "k_array"
             THEN [r.ar EXCEPT
                     !.embeddedBsonArrayStack = Append(@, newNode.sub),
                     !.embeddedBsonArrayIteratorStack = Append(@, begin),
                     !.itsNodeStack = Append(@, "InEmbeddedArray"),
                     !.outcome = Returned]
             ELSE [r.ar EXCEPT !.outcome = NotContainer]
     ELSE IF top = "Root"
     THEN [ar EXCEPT !.itsNodeStack = Append(@, "InObject"), !.outcome = Returned]
     ELSE [ar EXCEPT !.outcome = Returned]

In_startNode(ar) ==
  LET top == Top(ar.itsNodeStack)
  IN IF top \in {"InObject", "InEmbeddedObject", "InEmbeddedArray"}
     THEN LET r == In_search(ar)
              newNode == r.elem
          IN IF r.outcome # Returned THEN [r.ar EXCEPT !.outcome = r.outcome]
             ELSE IF ~Valid(newNode) THEN [r.ar EXCEPT !.outcome = UnsetElement]
             ELSE IF newNode.type = "k_document"
             THEN [r.ar EXCEPT
                     !.embeddedBsonDocStack = Append(@, newNode.sub),
                     !.itsNodeStack = Append(@, "InEmbeddedObject"),
                     !.outcome = Returned]
             ELSE IF newNode.type = "k_array"
             THEN [r.ar EXCEPT
                     !.embeddedBsonArrayStack = Append(@, newNode.sub),
                     !.embeddedBsonArrayIteratorStack = Append(@, begin),
                     !.itsNodeStack = Append(@, "InEmbeddedArray"),
                     !.outcome = Returned]
             ELSE [r.ar EXCEPT !.outcome = NotContainer]
     ELSE IF top = "Root"
     THEN [ar EXCEPT !.itsNodeStack = Append(@, "InObject"), !.outcome = Returned]
     ELSE [ar EXCEPT !.outcome = Returned]

\* In_finishNode leaving the iterator of the array it leaves on the
\* iterator stack.
In_finishNode_KeepIterator(ar) ==
  LET top == Top(ar.itsNodeStack)
      a1 == IF top = "InEmbeddedObject"
            THEN [ar EXCEPT !.embeddedBsonDocStack = Pop(@)]
            ELSE IF top = "InEmbeddedArray"
            THEN [ar EXCEPT !.embeddedBsonArrayStack = Pop(@)]
            ELSE ar
      stack == Pop(ar.itsNodeStack)
  IN [a1 EXCEPT !.itsNodeStack = stack,
                !.curBsonView = IF Top(stack) = "Root" THEN @ + 1 ELSE @,
                !.outcome = Returned]

\* In_finishNode moving on the iterator of the array it returns to (the
\* increment the source keeps commented out at the end of finishNode).
In_finishNode_AdvanceParent(ar) ==
  LET top == Top(ar.itsNodeStack)
      a1 == IF top = "InEmbeddedObject"
            THEN [ar EXCEPT !.embeddedBsonDocStack = Pop(@)]
            ELSE IF top = "InEmbeddedArray"
            THEN [ar EXCEPT !.embeddedBsonArrayStack = Pop(@),
                            !.embeddedBsonArrayIteratorStack = Pop(@)]
            ELSE ar
      stack == Pop(ar.itsNodeStack)
      a2 == IF a1.embeddedBsonArrayIteratorStack # <<>>
            THEN [a1 EXCEPT !.embeddedBsonArrayIteratorStack =
                    SetTop(@, Incr(Top(a1.embeddedBsonArrayStack), Top(@)))]
            ELSE a1
  IN [a2 EXCEPT !.itsNodeStack = stack,
                !.curBsonView = IF Top(stack) = "Root" THEN @ + 1 ELSE @,
                !.outcome = Returned]

\* In_finishNode moving the cursor on at every call.
In_finishNode_AlwaysAdvance(ar) ==
  LET top == Top(ar.itsNodeStack)
      a1 == IF top = "InEmbeddedObject"
            THEN [ar EXCEPT !.embeddedBsonDocStack = Pop(@)]
            ELSE IF top = "InEmbeddedArray"
            THEN [ar EXCEPT !.embeddedBsonArrayStack = Pop(@),
                            !.embeddedBsonArrayIteratorStack = Pop(@)]
            ELSE ar
  IN [a1 EXCEPT !.itsNodeStack = Pop(@),
                !.curBsonView = @ + 1,
                !.outcome = Returned]

In_finishNode(ar) ==
  LET top == Top(ar.itsNodeStack)
      a1 == IF top = "InEmbeddedObject"
            THEN [ar EXCEPT !.embeddedBsonDocStack = Pop(@)]
            ELSE IF top = "InEmbeddedArray"
            THEN [ar EXCEPT !.embeddedBsonArrayStack = Pop(@),
                            !.embeddedBsonArrayIteratorStack = Pop(@)]
            ELSE ar
      stack == Pop(ar.itsNodeStack)
  IN [a1 EXCEPT !.itsNodeStack = stack,
                !.curBsonView = IF Top(stack) = "Root" THEN @ + 1 ELSE @,
                !.outcome = Returned]

\* In_loadSize counting from the array's iterator instead of begin().
In_loadSize_Remaining(ar) ==
  IF Top(ar.itsNodeStack) # "InEmbeddedArray" THEN [ar EXCEPT !.outcome = NotInArray]
  ELSE [ar EXCEPT
          !.size = distance(Top(ar.embeddedBsonArrayStack))
                     - (Top(ar.embeddedBsonArrayIteratorStack) - begin),
          !.outcome = Returned]

In_loadSize(ar) ==
  IF Top(ar.itsNodeStack) # "InEmbeddedArray" THEN [ar EXCEPT !.outcome = NotInArray]
  ELSE [ar EXCEPT !.size = distance(Top(ar.embeddedBsonArrayStack)),
                  !.outcome = Returned]

\* ------------------------------------------------------------------ driver
\* The serialization driver saves a sequence of root-level containers
\* through one BSONOutputArchive, then constructs a BSONInputArchive over
\* the stream written and loads them back in the order they were saved.
VARIABLES
  oar,        \* the BSONOutputArchive
  iar,        \* the BSONInputArchive
  phase,      \* "save" or "load"
  saved,      \* the root-level containers saved so far, as the driver gave them
  path,       \* the containers the driver has started and not yet finished
  walk,       \* the saved containers the driver has entered while loading
  rootsRead,  \* root-level containers the driver has finished loading
  nodes,      \* values saved so far
  last        \* the driver's last call

vars == <<oar, iar, phase, saved, path, walk, rootsRead, nodes, last>>

\* The C++ types of the scalars saved, the values saved for each, and the
\* types a load may ask for.
SaveKinds == {"int32_t", "string"}

Values(kind) == IF kind = "string" THEN {3} ELSE {1, 2}

LoadKinds == {"int32_t", "int64_t", "string"}

\* A name no container saved has.
AbsentName == "c"

\* A value as the driver gave it: the name of its NVP (nullptr without
\* one), "object", "array" or the C++ type of a scalar, the scalar's value,
\* a container's children.
Node(name, kind, val, sub) == [name |-> name, kind |-> kind, val |-> val, sub |-> sub]

NoNode == Node(nullptr, "none", 0, <<>>)

IsContainer(node) == node.kind \in {"object", "array"}

\* A started container, with the builder's opens and closes made for it.
PathFrame(name) ==
  [name |-> name, kind |-> "object", sub |-> <<>>, opens |-> 0, closes |-> 0]

WalkFrame(node) == [node |-> node, read |-> {}, sized |-> FALSE]

\* The driver's last call: the member function, the name of the NVP, the
\* value saved or asked for, whether the call keeps to what was saved
\* ("none") or how it departs from it, the C++ type a load asked for, and
\* for a finishNode the builder's opens and closes made for the container.
Did(op, name, node, misuse) ==
  [op |-> op, name |-> name, node |-> node, misuse |-> misuse,
   kind |-> node.kind, opens |-> 0, closes |-> 0]

\* The builder calls with one of the names ops that ar1 has received and
\* ar0 had not.
NewCalls(ar0, ar1, ops) ==
  LET c0 == ar0.itsBuilder.calls
      c1 == ar1.itsBuilder.calls
  IN Cardinality({k \in (Len(c0) + 1)..Len(c1) : c1[k].op \in ops})

Opens(ar0, ar1) == NewCalls(ar0, ar1, {"open_document", "open_array"})

Closes(ar0, ar1) == NewCalls(ar0, ar1, {"close_document", "close_array"})

\* The opens and closes of a call belong to the container on top of the
\* node stack when the call is made.
Credit(p, ar0, ar1) ==
  IF p = <<>> THEN p
  ELSE SetTop(p, [Top(p) EXCEPT !.opens = @ + Opens(ar0, ar1),
                                !.closes = @ + Closes(ar0, ar1)])

AddChild(p, node) == SetTop(p, [Top(p) EXCEPT !.sub = Append(@, node)])

UsedNames(sub) == {sub[k].name : k \in 1..Len(sub)}

\* An NVP names a field of an object; array elements and root-level
\* containers are saved without one.
NameChoices ==
  IF path = <<>> \/ Top(path).kind = "array" THEN {nullptr}
  ELSE (Names \ UsedNames(Top(path).sub)) \cup {nullptr}

OutNamed(ar, name) == IF name = nullptr THEN ar ELSE Out_setNextName(ar, name)

InNamed(ar, name) == IF name = nullptr THEN ar ELSE In_setNextName(ar, name)

Init ==
  /\ oar = BSONOutputArchive
  /\ iar = BSONInputArchive(<<>>)
  /\ phase = "save"
  /\ saved = <<>>
  /\ path = <<>>
  /\ walk = <<>>
  /\ rootsRead = 0
  /\ nodes = 0
  /\ last = Did("construct", nullptr, NoNode, "none")

\* prologue of a type that is not arithmetic, a string or a BSON type,
\* after the setNextName of its NVP
SaveStartNode(name) ==
  /\ phase = "save"
  /\ nodes < MaxNodes
  /\ Len(oar.itsNodeStack) < MaxDepth
  /\ path = <<>> => Len(saved) < MaxRoots
  /\ name \in NameChoices
  /\ oar' = Out_startNode(OutNamed(oar, name))
  /\ path' = Append(Credit(path, oar, oar'), PathFrame(name))
  /\ nodes' = nodes + 1
  /\ last' = Did("startNode", name, NoNode, "none")
  /\ UNCHANGED <<iar, phase, saved, walk, rootsRead>>

\* prologue of the SizeTag a sequence saves before its elements
SaveMakeArray ==
  /\ phase = "save"
  /\ path # <<>>
  /\ Top(path).kind = "object"
  /\ Top(path).sub = <<>>
  /\ oar' = Out_makeArray(oar)
  /\ path' = SetTop(path, [Top(path) EXCEPT !.kind = "array"])
  /\ last' = Did("makeArray", nullptr, NoNode, "none")
  /\ UNCHANGED <<iar, phase, saved, walk, rootsRead, nodes>>

\* prologue (writeName) and save (saveValue) of an arithmetic type or a
\* string, after the setNextName of its NVP
SaveScalar(name, kind, v) ==
  /\ phase = "save"
  /\ nodes < MaxNodes
  /\ path # <<>>
  /\ name \in NameChoices
  /\ oar' = Out_saveValue(Out_writeName(OutNamed(oar, name)), kind, v)
  /\ path' = AddChild(Credit(path, oar, oar'), Node(name, kind, v, <<>>))
  /\ nodes' = nodes + 1
  /\ last' = Did("saveValue", name, Node(name, kind, v, <<>>), "none")
  /\ UNCHANGED <<iar, phase, saved, walk, rootsRead>>

\* epilogue of the type whose prologue started the node
SaveFinishNode ==
  /\ phase = "save"
  /\ path # <<>>
  /\ oar' = Out_finishNode(oar)
  /\ LET f == Top(Credit(path, oar, oar'))
         node == Node(f.name, f.kind, 0, f.sub)
     IN /\ IF Len(path) = 1
           THEN saved' = Append(saved, node) /\ path' = <<>>
           ELSE saved' = saved /\ path' = AddChild(Pop(path), node)
        /\ last' = [Did("finishNode", f.name, node, "none") EXCEPT
                       !.opens = f.opens, !.closes = f.closes]
  /\ UNCHANGED <<iar, phase, walk, rootsRead, nodes>>

\* The input archive is constructed over what the output archive wrote.
StartLoad ==
  /\ phase = "save"
  /\ path = <<>>
  /\ iar' = BSONInputArchive(oar.itsWriteStream)
  /\ phase' = "load"
  /\ last' = Did("construct", nullptr, NoNode, "none")
  /\ UNCHANGED <<oar, saved, path, walk, rootsRead, nodes>>

\* An exception ends the traversal.
Loading == phase = "load" /\ iar.outcome = Returned

Here == Top(walk).node

Unread == (1..Len(Here.sub)) \ Top(walk).read

\* The children the driver may load next: any named field of an object not
\* yet loaded, the next element of an array once its size is loaded.
Loadable ==
  IF Here.kind = "array"
  THEN {c \in Unread : Top(walk).sized /\ c = Cardinality(Top(walk).read) + 1}
  ELSE {c \in Unread : Here.sub[c].name # nullptr}

MarkRead(w, c) == SetTop(w, [Top(w) EXCEPT !.read = @ \cup {c}])

LoadStartRoot ==
  /\ Loading
  /\ walk = <<>>
  /\ rootsRead < Len(saved)
  /\ iar' = In_startNode(iar)
  /\ walk' = <<WalkFrame(saved[rootsRead + 1])>>
  /\ last' = Did("startNode", nullptr, saved[rootsRead + 1], "none")
  /\ UNCHANGED <<oar, phase, saved, path, rootsRead, nodes>>

\* load of the SizeTag a sequence loads before its elements
LoadSize ==
  /\ Loading
  /\ walk # <<>>
  /\ Here.kind = "array"
  /\ ~Top(walk).sized
  /\ iar' = In_loadSize(iar)
  /\ walk' = SetTop(walk, [Top(walk) EXCEPT !.sized = TRUE])
  /\ last' = Did("loadSize", nullptr, Here, "none")
  /\ UNCHANGED <<oar, phase, saved, path, rootsRead, nodes>>

LoadScalar(c) ==
  /\ Loading
  /\ walk # <<>>
  /\ c \in Loadable
  /\ ~IsContainer(Here.sub[c])
  /\ iar' = In_loadValue(InNamed(iar, Here.sub[c].name), Here.sub[c].kind)
  /\ walk' = MarkRead(walk, c)
  /\ last' = Did("loadValue", Here.sub[c].name, Here.sub[c], "none")
  /\ UNCHANGED <<oar, phase, saved, path, rootsRead, nodes>>

LoadStartNode(c) ==
  /\ Loading
  /\ walk # <<>>
  /\ c \in Loadable
  /\ IsContainer(Here.sub[c])
  /\ iar' = In_startNode(InNamed(iar, Here.sub[c].name))
  /\ walk' = Append(MarkRead(walk, c), WalkFrame(Here.sub[c]))
  /\ last' = Did("startNode", Here.sub[c].name, Here.sub[c], "none")
  /\ UNCHANGED <<oar, phase, saved, path, rootsRead, nodes>>

\* A sequence is finished once its elements are loaded; an object may be
\* finished with fields left unread.
LoadFinishNode ==
  /\ Loading
  /\ walk # <<>>
  /\ Here.kind = "array" => Top(walk).sized /\ Unread = {}
  /\ iar' = In_finishNode(iar)
  /\ walk' = Pop(walk)
  /\ rootsRead' = IF Len(walk) = 1 THEN rootsRead + 1 ELSE rootsRead
  /\ last' = Did("finishNode", nullptr, Here, "none")
  /\ UNCHANGED <<oar, phase, saved, path, nodes>>

\* A load or a container entry under a name the object has no field for.
LoadMissing(name, op) ==
  /\ Loading
  /\ walk # <<>>
  /\ Here.kind = "object"
  /\ name \in (Names \cup {AbsentName}) \ UsedNames(Here.sub)
  /\ iar' = IF op = "loadValue" THEN In_loadValue(In_setNextName(iar, name), "int32_t")
            ELSE In_startNode(In_setNextName(iar, name))
  /\ last' = Did(op, name, NoNode, "missing")
  /\ UNCHANGED <<oar, phase, saved, path, walk, rootsRead, nodes>>

\* A load of a scalar into a variable of another type than it was saved from.
LoadWrongKind(c, kind) ==
  /\ Loading
  /\ walk # <<>>
  /\ c \in Loadable
  /\ ~IsContainer(Here.sub[c])
  /\ BsonType(kind) # BsonType(Here.sub[c].kind)
  /\ iar' = In_loadValue(InNamed(iar, Here.sub[c].name), kind)
  /\ walk' = MarkRead(walk, c)
  /\ last' = [Did("loadValue", Here.sub[c].name, Here.sub[c], "wrongkind") EXCEPT
                !.kind = kind]
  /\ UNCHANGED <<oar, phase, saved, path, rootsRead, nodes>>

\* One more element load than the array has elements.
LoadPastEnd ==
  /\ Loading
  /\ walk # <<>>
  /\ Here.kind = "array"
  /\ Top(walk).sized
  /\ Unread = {}
  /\ iar' = In_loadValue(iar, "int32_t")
  /\ last' = Did("loadValue", nullptr, NoNode, "pastend")
  /\ UNCHANGED <<oar, phase, saved, path, walk, rootsRead, nodes>>

Next ==
  \/ \E name \in Names \cup {nullptr} : SaveStartNode(name)
  \/ SaveMakeArray
  \/ \E name \in Names \cup {nullptr}, kind \in SaveKinds :
       \E v \in Values(kind) : SaveScalar(name, kind, v)
  \/ SaveFinishNode
  \/ StartLoad
  \/ LoadStartRoot
  \/ LoadSize
  \/ \E c \in 1..MaxNodes : LoadScalar(c)
  \/ \E c \in 1..MaxNodes : LoadStartNode(c)
  \/ LoadFinishNode
  \/ \E name \in Names \cup {AbsentName}, op \in {"loadValue", "startNode"} :
       LoadMissing(name, op)
  \/ \E c \in 1..MaxNodes, kind \in LoadKinds : LoadWrongKind(c, kind)
  \/ LoadPastEnd

Spec == Init /\ [][Next]_vars

\* ---------------------------------------------------- the encoder, any call
\* The member functions of BSONOutputArchive are public: in EncoderSpec the
\* driver makes them in any order, MaxCalls of them at most. A call the
\* builder rejects throws out of the member function and ends the run. Once
\* a finishNode has emptied the node stack the driver makes no call that
\* reads its top, top() of an empty stack being undefined.
MaxCalls == 7

Writes == {"writeName", "startNode"}

\* The name the driver has given since its last write; the last one given
\* is the one that stands.
Given == IF last.op \in Writes THEN nullptr ELSE last.name

EncCall(op, name, ar) ==
  /\ phase = "save"
  /\ nodes < MaxCalls
  /\ ~oar.itsBuilder.thrown
  /\ ~ar.itsBuilder.thrown
  /\ oar' = ar
  /\ nodes' = nodes + 1
  /\ last' = Did(op, name, NoNode, "none")

EncSetNextName(name) ==
  /\ EncCall("setNextName", name, Out_setNextName(oar, name))
  /\ UNCHANGED <<iar, phase, saved, path, walk, rootsRead>>

EncStartNode ==
  /\ oar.itsNodeStack # <<>>
  /\ Len(oar.itsNodeStack) < MaxDepth
  /\ EncCall("startNode", Given, Out_startNode(oar))
  /\ UNCHANGED <<iar, phase, saved, path, walk, rootsRead>>

EncFinishNode ==
  /\ oar.itsNodeStack # <<>>
  /\ EncCall("finishNode", Given, Out_finishNode(oar))
  /\ UNCHANGED <<iar, phase, saved, path, walk, rootsRead>>

EncWriteName ==
  /\ oar.itsNodeStack # <<>>
  /\ EncCall("writeName", Given, Out_writeName(oar))
  /\ UNCHANGED <<iar, phase, saved, path, walk, rootsRead>>

EncMakeArray ==
  /\ oar.itsNodeStack # <<>>
  /\ EncCall("makeArray", Given, Out_makeArray(oar))
  /\ UNCHANGED <<iar, phase, saved, path, walk, rootsRead>>

EncSaveValue ==
  /\ EncCall("saveValue", Given, Out_saveValue(oar, "int32_t", 1))
  /\ UNCHANGED <<iar, phase, saved, path, walk, rootsRead>>

\* The archive going out of scope, after any calls: oar is then what the
\* destructor left of it.
EncDestroy ==
  /\ phase = "save"
  /\ ~oar.itsBuilder.thrown
  /\ oar' = Out_destructor(oar)
  /\ phase' = "destroyed"
  /\ last' = Did("destructor", Given, NoNode, "none")
  /\ UNCHANGED <<iar, saved, path, walk, rootsRead, nodes>>

EncNext ==
  \/ \E name \in Names : EncSetNextName(name)
  \/ EncStartNode
  \/ EncFinishNode
  \/ EncWriteName
  \/ EncMakeArray
  \/ EncSaveValue
  \/ EncDestroy

EncoderSpec == Init /\ [][EncNext]_vars

\* ---------------------------------------------------- the decoder, any call
\* In DecoderSpec a BSONInputArchive is constructed over a stream of up to
\* MaxRoots documents and the driver makes its member functions in any
\* order, MaxCalls of them at most. An exception ends the run, and so does
\* a call whose behaviour is undefined, with any of the outcomes it can
\* have: a finishNode with Root alone on the node stack (top() of the
\* emptied stack), a lookup by name in the root view with the cursor past
\* the last document.
Doc1 ==
  <<Element("a", "k_int32", 1, <<>>),
    Element("b", "k_array", 0,
      <<Element("0", "k_int32", 2, <<>>),
        Element("1", "k_document", 0, <<Element("a", "k_utf8", 3, <<>>)>>),
        Element("2", "k_int32", 1, <<>>)>>)>>

Doc2 ==
  <<Element("b", "k_document", 0,
      <<Element("b", "k_int32", 2, <<>>),
        Element("a", "k_array", 0, <<>>)>>),
    Element("a", "k_int32", 2, <<>>)>>

Docs == {Doc1, Doc2}

RECURSIVE Streams(_)
Streams(n) ==
  IF n = 0 THEN {<<>>}
  ELSE Streams(n - 1) \cup
       {Append(st, d) : st \in {t \in Streams(n - 1) : Len(t) = n - 1}, d \in Docs}

RECURSIVE WriteAll(_, _)
WriteAll(stream, docs) ==
  IF docs = <<>> THEN stream
  ELSE WriteAll(write(stream, docs[1]), Tail(docs))

\* The driver's view of the container it is in: its elements and the
\* position of the one it loaded last.
Scope(elems) == [elems |-> elems, pos |-> 0]

RECURSIVE IndexOf(_, _, _)
IndexOf(elems, name, k) ==
  IF k > Len(elems) THEN 0
  ELSE IF elems[k].key = name THEN k
  ELSE IndexOf(elems, name, k + 1)

\* The element a load or a container entry is for: the one with the name
\* given, or without a name the one after the element loaded last.
NextIndex(scope, name) ==
  IF name # nullptr THEN IndexOf(scope.elems, name, 1)
  ELSE IF scope.pos < Len(scope.elems) THEN scope.pos + 1
  ELSE 0

ElementAt(scope, k) == IF k = 0 THEN InvalidElement ELSE scope.elems[k]

NodeOf(e) == Node(e.key, e.type, e.val, e.sub)

Reads == {"loadValue", "startNode"}

\* The name the driver has given since its last load or container entry.
Asked == IF last.op \in Reads THEN nullptr ELSE last.name

DecInit ==
  \E docs \in Streams(MaxRoots) :
    /\ oar = [BSONOutputArchive EXCEPT !.itsWriteStream = WriteAll(<<>>, docs)]
    /\ iar = BSONInputArchive(WriteAll(<<>>, docs))
    /\ phase = "load"
    /\ saved = docs
    /\ path = <<>>
    /\ walk = <<>>
    /\ rootsRead = 0
    /\ nodes = 0
    /\ last = Did("construct", nullptr, NoNode, "none")

Defined(ar) ==
  ~(/\ ar.itsNextName # nullptr
    /\ Top(ar.itsNodeStack) = "InObject"
    /\ ar.curBsonView > Len(ar.bsonViews))

DecCall(ar, did) ==
  /\ phase = "load"
  /\ iar.outcome = Returned
  /\ nodes < MaxCalls
  /\ iar' = ar
  /\ nodes' = nodes + 1
  /\ last' = did
  /\ UNCHANGED <<oar, phase, saved, path>>

DecSetNextName(name) ==
  /\ DecCall(In_setNextName(iar, name), Did("setNextName", name, NoNode, "none"))
  /\ UNCHANGED <<walk, rootsRead>>

\* The call keeps to the documents ("none") when the element it is for
\* exists and has the type asked for, and departs from them ("free")
\* otherwise.
Keeps(op, kind, e) ==
  /\ Valid(e)
  /\ op = "startNode" => e.type \in {"k_document", "k_array"}
  /\ op = "loadValue" => e.type = BsonType(kind)

Advance(w, k) == SetTop(w, [Top(w) EXCEPT !.pos = k])

DecStartNode ==
  /\ iar.outcome = Returned
  /\ Defined(iar)
  /\ LET ar == In_startNode(iar)
     IN IF walk = <<>>
        THEN LET there == rootsRead < Len(saved)
                 elems == IF there THEN saved[rootsRead + 1] ELSE <<>>
             IN /\ DecCall(ar, Did("startNode", Asked, NoNode,
                                    IF there THEN "none" ELSE "free"))
                /\ walk' = IF ar.outcome = Returned THEN <<Scope(elems)>> ELSE walk
        ELSE LET k == NextIndex(Top(walk), Asked)
                 e == ElementAt(Top(walk), k)
             IN /\ DecCall(ar, Did("startNode", Asked, NodeOf(e),
                                    IF Keeps("startNode", "none", e)
                                    THEN "none" ELSE "free"))
                /\ walk' = IF ar.outcome = Returned
                           THEN Append(Advance(walk, k), Scope(e.sub))
                           ELSE walk
  /\ UNCHANGED rootsRead

DecFinishNode ==
  /\ Len(iar.itsNodeStack) > 1
  /\ DecCall(In_finishNode(iar), Did("finishNode", Asked, NoNode, "none"))
  /\ walk' = Pop(walk)
  /\ rootsRead' = IF Len(walk) = 1 THEN rootsRead + 1 ELSE rootsRead

DecLoadValue(kind) ==
  /\ iar.outcome = Returned
  /\ Defined(iar)
  /\ LET ar == In_loadValue(iar, kind)
         k == IF walk = <<>> THEN 0 ELSE NextIndex(Top(walk), Asked)
         e == IF walk = <<>> THEN InvalidElement ELSE ElementAt(Top(walk), k)
     IN /\ DecCall(ar, [Did("loadValue", Asked, NodeOf(e),
                            IF Keeps("loadValue", kind, e) THEN "none" ELSE "free")
                          EXCEPT !.kind = kind])
        /\ walk' = IF ar.outcome = Returned /\ walk # <<>>
                   THEN Advance(walk, k) ELSE walk
  /\ UNCHANGED rootsRead

DecLoadSize ==
  /\ DecCall(In_loadSize(iar), Did("loadSize", Asked, NoNode, "none"))
  /\ UNCHANGED <<walk, rootsRead>>

\* What a read through curBsonView can end with when curBsonView is
\* bsonViews.end(): the run killed at the access, or the memory behind the
\* last view taken for a document, in which the key is not found or an
\* element that belongs to no document is.
SegFault == "undefined: killed reading *curBsonView at bsonViews.end()"

GarbageElement == "undefined: element found in memory past the last view"

PastEndOutcomes == {SegFault, LookupError, GarbageElement}

\* A load or a container entry that is not Defined: search() looks the
\* pending name up in *curBsonView with no test of curBsonView against
\* bsonViews.end(). The run ends there, whatever the outcome.
DecReadPastEnd(op) ==
  /\ iar.outcome = Returned
  /\ ~Defined(iar)
  /\ \E what \in PastEndOutcomes :
       DecCall([iar EXCEPT !.outcome = what, !.searches = @ + 1],
               Did(op, Asked, NoNode, "free"))
  /\ UNCHANGED <<walk, rootsRead>>

\* What finishNode is left with after it popped Root, the only entry:
\* itsNodeStack.top() of the empty stack is read and compared with Root.
EmptyStackTop == "undefined: top() of the empty node stack"

KilledAtTop == "undefined: killed reading top() of the empty node stack"

\* finishNode with Root alone on the node stack. The pop empties the
\* stack; the read of top() that follows is killed, or gives a value that
\* is Root, and the cursor moves on, or one that is not. The run ends
\* there: every later call would begin with top() of the empty stack.
DecFinishAtRoot ==
  /\ iar.itsNodeStack = <<"Root">>
  /\ \E ar \in {[iar EXCEPT !.itsNodeStack = Pop(@), !.outcome = KilledAtTop],
                [iar EXCEPT !.itsNodeStack = Pop(@), !.outcome = EmptyStackTop],
                [iar EXCEPT !.itsNodeStack = Pop(@), !.outcome = EmptyStackTop,
                            !.curBsonView = @ + 1]} :
       DecCall(ar, Did("finishNode", Asked, NoNode, "free"))
  /\ UNCHANGED <<walk, rootsRead>>

DecNext ==
  \/ DecFinishAtRoot
  \/ \E name \in Names \cup {AbsentName} : DecSetNextName(name)
  \/ DecStartNode
  \/ DecFinishNode
  \/ \E kind \in SaveKinds : DecLoadValue(kind)
  \/ DecLoadSize
  \/ \E op \in Reads : DecReadPastEnd(op)

DecoderSpec == DecInit /\ [][DecNext]_vars

\* ------------------------------------------- the decoder's constructor
\* The constructor of BSONInputArchive taken one turn of its loop at a time,
\* over streams that are documents written one after another, each
\* beginning with its length. BSONInputArchive(stream), from which Spec and
\* DecoderSpec go on, is the archive of a construction that came to its end.
EmptyDoc == <<>>

Doc3 == <<Element("a", "k_int32", 1, <<>>)>>

Doc4 == <<Element("b", "k_utf8", 3, <<>>), Element("a", "k_bool", 1, <<>>)>>

CtorDocs == {EmptyDoc, Doc1, Doc2, Doc3, Doc4}

RECURSIVE CtorStreams(_)
CtorStreams(n) ==
  IF n = 0 THEN {<<>>}
  ELSE CtorStreams(n - 1) \cup
       {Append(st, d) : st \in {t \in CtorStreams(n - 1) : Len(t) = n - 1},
                        d \in CtorDocs}

\* The archive as the constructor has it when it reaches its loop:
\* streamLength measured, the stream back at its beginning.
EnterLoop(stream) ==
  [itsNextName |-> nullptr,
   itsReadStream |-> [data |-> stream, tellg |-> 0],
   streamLength |-> StreamLength(stream),
   rawBsonDocuments |-> <<>>,
   bsonViews |-> <<>>,
   itsNodeStack |-> <<"Root">>]

\* The bytes of the stream from tellg on, as far as the four bytes at tellg
\* say.
DocumentAt(stream, tellg) ==
  CHOOSE c \in {stream[k] : k \in 1..Len(stream)} : c.at = tellg

\* What the run is left in when the subscript of the empty buffer is
\* checked.
SubscriptAbort == "abort: vector subscript out of range"

CtorInit ==
  \E docs \in CtorStreams(MaxRoots) :
    /\ oar = [BSONOutputArchive EXCEPT !.itsWriteStream = WriteAll(<<>>, docs)]
    /\ iar = EnterLoop(WriteAll(<<>>, docs))
    /\ phase = "construct"
    /\ saved = docs
    /\ path = <<>>
    /\ walk = <<>>
    /\ rootsRead = 0
    /\ nodes = 0
    /\ last = Did("construct", nullptr, NoNode, "none")

InLoop ==
  /\ phase = "construct"
  /\ iar.itsReadStream.tellg < iar.streamLength

\* One turn of the loop. bsonData has reserved docsize bytes and has size
\* 0; &bsonData[0] and the read of docsize bytes through it are outside
\* the vector. Where the subscript is not checked the bytes land in the
\* reserved capacity, the buffer moves into rawBsonDocuments and the view
\* over it is the document.
CtorReadDocument ==
  /\ InLoop
  /\ LET doc == DocumentAt(iar.itsReadStream.data, iar.itsReadStream.tellg)
     IN iar' = [iar EXCEPT
                  !.itsReadStream.tellg = @ + doc.docsize,
                  !.rawBsonDocuments = Append(@, doc),
                  !.bsonViews = Append(@, doc.elems)]
  /\ nodes' = nodes + 1
  /\ UNCHANGED <<oar, phase, saved, path, walk, rootsRead, last>>

\* The same turn where the subscript is checked: the run is aborted at
\* &bsonData[0], the stream back at the beginning of the document.
CtorAbort ==
  /\ InLoop
  /\ phase' = SubscriptAbort
  /\ UNCHANGED <<oar, iar, saved, path, walk, rootsRead, nodes, last>>

\* The end of the loop: curBsonView = bsonViews.begin()
CtorDone ==
  /\ phase = "construct"
  /\ ~(iar.itsReadStream.tellg < iar.streamLength)
  /\ iar' = [BSONInputArchive(<<>>) EXCEPT !.bsonViews = iar.bsonViews]
  /\ phase' = "load"
  /\ UNCHANGED <<oar, saved, path, walk, rootsRead, nodes, last>>

CtorNext ==
  \/ CtorReadDocument
  \/ CtorAbort
  \/ CtorDone

CtorSpec == CtorInit /\ [][CtorNext]_vars

\* ------------------------------ the decoder's constructor, any bytes
\* The same loop over a stream of any bytes. Of the bytes only what the
\* loop looks at is kept: the length of the stream, and for every offset
\* that has four bytes from it on, the int32_t those four bytes give.
MaxBytes == 6

\* The views kept apart in the model; the loop itself has no such limit.
MaxViews == 2

\* A negative length, 0, a length smaller than the prefix itself, and
\* lengths that fit or do not fit what is left of the stream.
Prefixes == {-1, 0, 1, 4, 5, 9}

RawStreams ==
  UNION {{[length |-> n, int32At |-> f] :
            f \in [1..(IF n < 4 THEN 0 ELSE n - 3) -> Prefixes]} :
         n \in 0..MaxBytes}

\* (size_t)-1. It stands for 2^64 - 1; all that matters is that no stream
\* is as long.
SIZE_MAX == 2147483647

\* tellg() is -1 once a read has failed; the loop compares it with the
\* size_t streamLength, so as an unsigned number.
tellg(stream) == IF stream.fail THEN -1 ELSE stream.pos

ToSizeT(n) == IF n < 0 THEN SIZE_MAX + (n + 1) ELSE n

EnterLoopRaw(data) ==
  [itsNextName |-> nullptr,
   itsReadStream |-> [data |-> data, pos |-> 0, fail |-> FALSE],
   streamLength |-> data.length,
   bsonViews |-> <<>>,
   turns |-> 0,
   itsNodeStack |-> <<"Root">>]

RawInit ==
  \E data \in RawStreams :
    /\ oar = BSONOutputArchive
    /\ iar = EnterLoopRaw(data)
    /\ phase = "construct"
    /\ saved = <<>>
    /\ path = <<>>
    /\ walk = <<>>
    /\ rootsRead = 0
    /\ nodes = 0
    /\ last = Did("construct", nullptr, NoNode, "none")

RawInLoop ==
  /\ phase = "construct"
  /\ ToSizeT(tellg(iar.itsReadStream)) < iar.streamLength

\* itsReadStream.read(docsize_buf, 4) and the memcpy: the int32_t at the
\* read position, or, where fewer than four bytes are left, whatever the
\* buffer held, docsize_buf being read without having been written.
DocsizeRead(stream) ==
  IF stream.pos + 4 > stream.data.length THEN Prefixes
  ELSE {stream.data.int32At[stream.pos + 1]}

\* The stream after the turn's reads and its seekg: a read past the end
\* fails the stream, and a failed stream neither seeks nor reads.
AfterReads(stream, docsize) ==
  IF stream.pos + 4 > stream.data.length
  THEN [stream EXCEPT !.pos = stream.data.length, !.fail = TRUE]
  ELSE IF stream.pos + docsize > stream.data.length
  THEN [stream EXCEPT !.pos = stream.data.length, !.fail = TRUE]
  ELSE [stream EXCEPT !.pos = @ + docsize]

\* bsonViews.push_back of a view of docsize bytes. The model tells the
\* last MaxViews views apart and, by its parity, one turn from the next.
PushView(ar, docsize) ==
  [ar EXCEPT !.bsonViews = IF Len(@) < MaxViews THEN Append(@, docsize)
                           ELSE Append(Tail(@), docsize),
             !.turns = 1 - @]

\* One turn of the loop that reaches its end.
RawReadDocument ==
  /\ RawInLoop
  /\ \E docsize \in DocsizeRead(iar.itsReadStream) :
       /\ docsize >= 0
       /\ iar' = [PushView(iar, docsize) EXCEPT
                    !.itsReadStream = AfterReads(@, docsize)]
  /\ UNCHANGED <<oar, phase, saved, path, walk, rootsRead, nodes, last>>

\* bsonData.reserve(docsize) of a negative docsize, which as a size_t is
\* more than max_size(): std::length_error leaves the constructor.
LengthError == "std::length_error: vector::reserve"

RawLengthError ==
  /\ RawInLoop
  /\ \E docsize \in DocsizeRead(iar.itsReadStream) :
       /\ docsize < 0
       /\ iar' = [iar EXCEPT
                    !.itsReadStream = AfterReads(@, 0)]
  /\ phase' = LengthError
  /\ UNCHANGED <<oar, saved, path, walk, rootsRead, nodes, last>>

\* The turn where the subscript of the empty buffer is checked.
RawAbort ==
  /\ RawInLoop
  /\ \E docsize \in DocsizeRead(iar.itsReadStream) : docsize >= 0
  /\ phase' = SubscriptAbort
  /\ UNCHANGED <<oar, iar, saved, path, walk, rootsRead, nodes, last>>

RawDone ==
  /\ phase = "construct"
  /\ ~(ToSizeT(tellg(iar.itsReadStream)) < iar.streamLength)
  /\ phase' = "load"
  /\ UNCHANGED <<oar, iar, saved, path, walk, rootsRead, nodes, last>>

RawNext ==
  \/ RawReadDocument
  \/ RawLengthError
  \/ RawAbort
  \/ RawDone

\* The constructor is one thread of straight code: while a turn of the
\* loop or its end is possible, one of them is taken.
RawSpec == RawInit /\ [][RawNext]_vars /\ WF_vars(RawNext)

\* ------------------------------------------------------------------ claims
\* What saving a container should produce, from the container as the driver
\* gave it: an object's field has the name of its NVP or "value<N>", N the
\* number of unnamed fields before it; an array's element has its position.
Unnamed(sub) == Cardinality({k \in 1..Len(sub) : sub[k].name = nullptr})

ExpectedKey(kind, sub, k) ==
  IF kind = "array" THEN to_string(k - 1)
  ELSE IF sub[k].name # nullptr THEN sub[k].name
  ELSE "value" \o to_string(Unnamed(SubSeq(sub, 1, k - 1)))

RECURSIVE Expected(_)
ExpectedElement(node, k) ==
  CASE node.kind = "object" -> Element(k, "k_document", 0, Expected(node))
    [] node.kind = "array" -> Element(k, "k_array", 0, Expected(node))
    [] OTHER -> Element(k, BsonType(node.kind), node.val, <<>>)

Expected(node) ==
  [k \in 1..Len(node.sub) |->
     ExpectedElement(node.sub[k], ExpectedKey(node.kind, node.sub, k))]

AllObjects(roots) == \A k \in 1..Len(roots) : roots[k].kind = "object"

\* A call of the load that keeps to what was saved: the names, the types,
\* the order of array elements and their number.
Conforming == phase = "load" /\ last.misuse = "none"

\* C1: round trip. Every call of a load that follows what was saved
\* returns, a scalar load with the value saved, a size load with the number
\* of elements saved, whatever the kind of the root-level containers.
C1_RoundTrip ==
  Conforming =>
    /\ iar.outcome = Returned
    /\ last.op = "loadValue" => iar.value = last.node.val
    /\ last.op = "loadSize" => iar.size = Len(last.node.sub)

\* C2: flush boundary. After k root-level containers have been finished,
\* of either kind, k documents have been written, and the builder is reset
\* whenever the node stack is back at Root.
C2_FlushBoundary ==
  /\ Len(oar.itsWriteStream) = Len(saved)
  /\ path = <<>> => view_document(oar.itsBuilder) = <<>>

\* C3: multiple root documents. When the N root-level containers saved are
\* objects, the input archive holds N documents, the i-th the i-th object
\* saved; the i-th root-level container is loaded with the cursor on the
\* i-th document, and every load that follows what was saved returns.
C3_RootsInOrder ==
  (phase = "load" /\ AllObjects(saved)) =>
    /\ Len(iar.bsonViews) = Len(saved)
    /\ \A k \in 1..Len(saved) : iar.bsonViews[k] = Expected(saved[k])
    /\ iar.curBsonView = rootsRead + 1
    /\ Conforming => iar.outcome = Returned

\* The second of two root-level objects is being loaded, and the field just
\* loaded has in the first object another value under the same name.
C3_Witness ==
  /\ phase = "load"
  /\ AllObjects(saved)
  /\ Len(saved) = 2
  /\ rootsRead = 1
  /\ Len(walk) = 1
  /\ iar.curBsonView = 2
  /\ last.op = "loadValue"
  /\ last.misuse = "none"
  /\ iar.value = last.node.val
  /\ saved[1].sub # <<>>
  /\ saved[1].sub[1].name = last.name
  /\ saved[1].sub[1].kind = last.node.kind
  /\ saved[1].sub[1].val # last.node.val

\* C4: empty container preservation, for a container that is a field of an
\* object or an element of an array. Saving: when a container is finished
\* that had no child, the last element of its parent in the builder is an
\* empty document (object) or an empty array (array) under the container's
\* key. Loading: entering it returns, with the state of its kind, an empty
\* view of its own on top of the stack of that kind, and a size of 0.
LastElement(b) == Top(Top(b.stack).elems)

EmptyFinished ==
  /\ phase = "save"
  /\ last.op = "finishNode"
  /\ last.node.sub = <<>>
  /\ path # <<>>

EmptyEntered ==
  /\ Conforming
  /\ last.op = "startNode"
  /\ last.node.sub = <<>>
  /\ Len(walk) > 1

C5_OutOfOrder ==
  (Conforming /\ last.op = "loadValue" /\ last.name # nullptr) =>
    /\ iar.outcome = Returned
    /\ iar.value = last.node.val

\* In an embedded object of two fields, the first field has just been
\* loaded, after the second.
C5_Witness ==
  /\ Conforming
  /\ last.op = "loadValue"
  /\ Len(walk) = 2
  /\ Here.kind = "object"
  /\ Len(Here.sub) = 2
  /\ Top(walk).read = {1, 2}
  /\ last.node = Here.sub[1]
  /\ ~IsContainer(Here.sub[2])
  /\ Here.sub[2].name # nullptr
  /\ Here.sub[2].val # Here.sub[1].val
  /\ iar.value = Here.sub[1].val

\* C6: array size, then iteration. In an array the input archive has
\* entered, loadSize returns the number n of elements saved, the n element
\* loads and container entries in sequence return (a scalar load with the
\* element saved at that position), and one more load throws the
\* out-of-bounds exception.
InArrayNow == walk # <<>> /\ Here.kind = "array" /\ Len(walk) > 1

C6_ArraySize ==
  /\ (Conforming /\ last.op = "loadSize" /\ InArrayNow) =>
       /\ iar.outcome = Returned
       /\ iar.size = Len(Here.sub)
  /\ (Conforming /\ last.op = "loadValue" /\ InArrayNow) =>
       /\ iar.outcome = Returned
       /\ iar.value = Here.sub[Cardinality(Top(walk).read)].val
  /\ (Conforming /\ last.op = "startNode" /\ Len(walk) > 2
        /\ walk[Len(walk) - 1].node.kind = "array") =>
       iar.outcome = Returned
  /\ (phase = "load" /\ last.misuse = "pastend") => iar.outcome = BoundsError

\* The third load in an array of two elements.
C6_Witness ==
  /\ phase = "load"
  /\ last.misuse = "pastend"
  /\ Len(Here.sub) = 2
  /\ iar.size = 2
  /\ iar.value = Here.sub[2].val
  /\ iar.outcome = BoundsError

\* C7: missing key. A load or a container entry under a name that the
\* current object, root or embedded, has no field for throws the lookup
\* exception and leaves every array iterator where it was.
C7_MissingKey ==
  [][(phase' = "load" /\ last'.misuse = "missing") =>
       /\ iar'.outcome = LookupError
       /\ iar'.embeddedBsonArrayIteratorStack = iar.embeddedBsonArrayIteratorStack]_vars

\* A container entry under a missing name in an object that is an element
\* of an array whose iterator has moved.
C7_Witness ==
  /\ phase = "load"
  /\ last.misuse = "missing"
  /\ last.op = "startNode"
  /\ iar.outcome = LookupError
  /\ Top(iar.itsNodeStack) = "InEmbeddedObject"
  /\ iar.embeddedBsonArrayIteratorStack # <<>>
  /\ Top(iar.embeddedBsonArrayIteratorStack) > begin + 1

\* C8: type mismatch. A load into a C++ type whose BSON type is not the
\* type of the element resolved throws the type exception and returns no
\* value.
C8_TypeMismatch ==
  [][(phase' = "load" /\ last'.misuse = "wrongkind") =>
       /\ iar'.outcome = TypeMismatch
       /\ iar'.value = iar.value]_vars

\* A string loaded as a 64-bit integer.
C8_Witness ==
  /\ phase = "load"
  /\ last.misuse = "wrongkind"
  /\ last.node.kind = "string"
  /\ last.kind = "int64_t"
  /\ iar.outcome = TypeMismatch

\* C9: deferred materialization. A started container has no open in the
\* builder until a child is written into it, and then one; when it is
\* finished it has had one open and one close, except the root-level object
\* (node stack depth 2), which has had none.
HasChild(k) == path[k].sub # <<>> \/ k < Len(path)

Wrapper(k) == k = 1 /\ path[k].kind = "object"

NodeTypeOf(k) ==
  IF path[k].kind = "array"
  THEN (IF HasChild(k) THEN "InArray" ELSE "StartArray")
  ELSE (IF HasChild(k) THEN "InObject" ELSE "StartObject")

C9_Deferred ==
  /\ (phase = "save" /\ last.op = "finishNode") =>
       IF last.node.kind = "array" \/ path # <<>>
       THEN last.opens = 1 /\ last.closes = 1
       ELSE last.opens = 0 /\ last.closes = 0
  /\ Len(oar.itsNodeStack) = Len(path) + 1
  /\ \A k \in 1..Len(path) :
       /\ path[k].closes = 0
       /\ path[k].opens = IF HasChild(k) /\ ~Wrapper(k) THEN 1 ELSE 0
       /\ oar.itsNodeStack[k + 1] = NodeTypeOf(k)

\* An empty object below the root-level object has been finished inside an
\* array that has a child already.
C9_Witness ==
  /\ phase = "save"
  /\ last.op = "finishNode"
  /\ last.node.kind = "object"
  /\ last.node.sub = <<>>
  /\ last.opens = 1
  /\ last.closes = 1
  /\ Len(path) = 2
  /\ path[2].kind = "array"
  /\ Len(path[2].sub) = 2
  /\ path[2].opens = 1
  /\ path[1].opens = 0

\* C10: key assignment. A write (writeName for a scalar or for a started
\* node) in an array gives the builder no key; any other write gives it one
\* key: the name set for it, or without one "value<N>", N the number of
\* unnamed writes made before it directly in the same container.
NewKeys(ar0, ar1) ==
  LET c0 == ar0.itsBuilder.calls
      c1 == ar1.itsBuilder.calls
      keys == SelectSeq(SubSeq(c1, Len(c0) + 1, Len(c1)),
                        LAMBDA c : c.op = "key_owned")
  IN [k \in 1..Len(keys) |-> keys[k].arg]

ExpectedKeys(p, roots, name) ==
  IF p # <<>> /\ Top(p).kind = "array" THEN <<>>
  ELSE IF name # nullptr THEN <<name>>
  ELSE IF p = <<>> THEN <<"value" \o to_string(Len(roots))>>
  ELSE <<"value" \o to_string(Unnamed(Top(p).sub))>>

C10_KeyAssignment ==
  [][(phase' = "save" /\ last'.op \in {"startNode", "saveValue"}) =>
       NewKeys(oar, oar') = ExpectedKeys(path, saved, last'.name)]_vars

\* An unnamed scalar written in the root-level object after an unnamed
\* object that has an unnamed field of its own: its key is "value1".
C10_Witness ==
  /\ phase = "save"
  /\ last.op = "saveValue"
  /\ last.name = nullptr
  /\ Len(path) = 1
  /\ path[1].kind = "object"
  /\ Len(path[1].sub) = 2
  /\ path[1].sub[1].kind = "object"
  /\ path[1].sub[1].name = nullptr
  /\ path[1].sub[1].sub # <<>>
  /\ path[1].sub[1].sub[1].name = nullptr
  /\ LastElement(oar.itsBuilder).key = "value1"

\* ------------------------------------------- claims on the encoder's state
\* The key of the builder's last key_owned call.
LastKey(b) ==
  LET keys == SelectSeq(b.calls, LAMBDA c : c.op = "key_owned")
  IN IF keys = <<>> THEN nullptr ELSE Top(keys).arg

\* The frame the last write was made into, the one below the new frame
\* after a startNode.
WrittenFrame ==
  IF last.op = "startNode" THEN oar.itsNodeStack[Len(oar.itsNodeStack) - 1]
  ELSE Top(oar.itsNodeStack)

\* C11: encoder pending name. After every write (writeName, alone or
\* through startNode) the pending name is empty, whatever the kind of the
\* enclosing container; and the key of a write outside an array is the name
\* given last before it.
C11_PendingName ==
  (phase = "save" /\ last.op \in Writes /\ oar.itsNodeStack # <<>>) =>
    /\ oar.itsNextName = nullptr
    /\ (last.name # nullptr /\ WrittenFrame # "InArray") =>
         LastKey(oar.itsBuilder) = last.name

\* C17: the encoder's node stack is never empty, whatever the calls made.
C17_RootKept == oar.itsNodeStack # <<>>

Min(a, b) == IF a < b THEN a ELSE b

\* The frames that are on the node stack before and after a step.
Kept(k) == k \in 1..Min(Len(oar.itsNodeStack), Len(oar'.itsNodeStack))

IsStart(f) == f \in {"StartObject", "StartArray"}

IsIn(f) == f \in {"InObject", "InArray"}

InOf(f) == IF f = "StartArray" THEN "InArray" ELSE "InObject"

\* A write made with frame k on top: the frame leaves its Start state for
\* the In state of its kind.
Materializes(k) ==
  /\ k = Len(oar.itsNodeStack)
  /\ last'.op \in Writes
  /\ IsStart(oar.itsNodeStack[k])
  /\ oar'.itsNodeStack[k] = InOf(oar.itsNodeStack[k])

\* C18, as claimed: a frame leaves StartObject for InObject, or StartArray
\* for InArray, on the first write made with it on top and at no other
\* call, and a frame in InObject or InArray keeps its state for as long as
\* it is on the stack.
C18_StartOnce ==
  [][\A k \in 1..MaxDepth : Kept(k) =>
       LET f == oar.itsNodeStack[k]
           g == oar'.itsNodeStack[k]
       IN /\ IsIn(f) => g = f
          /\ (IsStart(f) /\ k = Len(oar.itsNodeStack) /\ last'.op \in Writes) =>
               Materializes(k)
          /\ (IsStart(f) /\ IsIn(g)) => Materializes(k)]_vars

\* C18, amended: as claimed, except that makeArray returns the top frame to
\* StartArray whatever its state; no other call changes a frame in InObject
\* or InArray.
C18_StartOnceButMakeArray ==
  [][\A k \in 1..MaxDepth : Kept(k) =>
       LET f == oar.itsNodeStack[k]
           g == oar'.itsNodeStack[k]
       IN /\ (IsIn(f) /\ g # f) =>
               /\ last'.op = "makeArray"
               /\ k = Len(oar.itsNodeStack)
               /\ g = "StartArray"
          /\ (IsStart(f) /\ k = Len(oar.itsNodeStack) /\ last'.op \in Writes) =>
               Materializes(k)
          /\ (IsStart(f) /\ IsIn(g)) => Materializes(k)]_vars

\* A write has just taken a root-level array out of StartArray for the
\* second time, makeArray having returned it there after the first write.
C18_Witness ==
  /\ phase = "save"
  /\ last.op = "writeName"
  /\ oar.itsNodeStack = <<"Root", "InArray">>
  /\ Len(SelectSeq(oar.itsBuilder.calls, LAMBDA c : c.op = "open_array")) = 2

\* C19, as claimed: makeArray turns a StartObject frame on top of the stack
\* into StartArray and leaves any other top frame as it is; the frames
\* below, the name counters, the pending name, the builder and the stream
\* are unchanged.
MakeArrayOnly ==
  /\ Len(oar'.itsNodeStack) = Len(oar.itsNodeStack)
  /\ Pop(oar'.itsNodeStack) = Pop(oar.itsNodeStack)
  /\ oar'.itsNameCounter = oar.itsNameCounter
  /\ oar'.itsNextName = oar.itsNextName
  /\ oar'.itsBuilder = oar.itsBuilder
  /\ oar'.itsWriteStream = oar.itsWriteStream

C19_MakeArrayGuarded ==
  [][(phase' = "save" /\ last'.op = "makeArray") =>
       /\ MakeArrayOnly
       /\ Top(oar'.itsNodeStack) =
            IF Top(oar.itsNodeStack) = "StartObject" THEN "StartArray"
            ELSE Top(oar.itsNodeStack)]_vars

\* C19, amended: the top frame becomes StartArray whatever it was, the Root
\* sentinel and a frame that has received a child included.
C19_MakeArray ==
  [][(phase' = "save" /\ last'.op = "makeArray") =>
       /\ MakeArrayOnly
       /\ Top(oar'.itsNodeStack) = "StartArray"]_vars

\* makeArray has been called on a container started inside the root-level
\* object, with a name pending.
C19_Witness ==
  /\ phase = "save"
  /\ last.op = "makeArray"
  /\ oar.itsNodeStack = <<"Root", "InObject", "StartArray">>
  /\ oar.itsNextName # nullptr
  /\ oar.itsNameCounter = <<1, 1, 0>>

\* C20: name counters in lockstep. The name-counter stack is as deep as
\* the node stack in every state; startNode pushes a StartObject frame and
\* a counter of 0, finishNode pops one frame and one counter.
C20_Lockstep ==
  /\ [](Len(oar.itsNameCounter) = Len(oar.itsNodeStack))
  /\ [][/\ (phase' = "save" /\ last'.op = "startNode") =>
             /\ Len(oar'.itsNodeStack) = Len(oar.itsNodeStack) + 1
             /\ Len(oar'.itsNameCounter) = Len(oar.itsNameCounter) + 1
             /\ Top(oar'.itsNodeStack) = "StartObject"
             /\ Top(oar'.itsNameCounter) = 0
        /\ (phase' = "save" /\ last'.op = "finishNode") =>
             /\ oar'.itsNodeStack = Pop(oar.itsNodeStack)
             /\ oar'.itsNameCounter = Pop(oar.itsNameCounter)]_vars

\* A container started without a name in the root-level object, itself
\* started without a name, has just been finished: both counters below it
\* have counted one name.
C20_Witness ==
  /\ phase = "save"
  /\ last.op = "finishNode"
  /\ oar.itsNodeStack = <<"Root", "InObject">>
  /\ oar.itsNameCounter = <<1, 1>>

\* ------------------------------------------- claims on the decoder's state
\* C12: decoder pending name. After a scalar load or a container entry
\* that returns, the pending name is empty, in every decoder state.
C12_PendingName ==
  (phase = "load" /\ last.op \in Reads /\ iar.outcome = Returned) =>
    iar.itsNextName = nullptr

\* C13: decoder container entry. startNode in InObject, InEmbeddedObject
\* or InEmbeddedArray pushes InEmbeddedObject and the document when the
\* element resolved is a document, InEmbeddedArray, the array and an
\* iterator at its first element when it is an array, and otherwise throws
\* and pushes nothing; at Root it pushes InObject and no embedded frame.
\* A lookup that is not Defined resolves no element.
Pushed(stack, stack1, frame) == stack1 = Append(stack, frame)

C13_ContainerEntry ==
  [][(phase' = "load" /\ last'.op = "startNode") =>
       LET r == In_search(iar)
           resolved(type) ==
             Defined(iar) /\ r.outcome = Returned /\ r.elem.type = type
       IN IF Top(iar.itsNodeStack) = "Root"
          THEN /\ iar'.outcome = Returned
               /\ Pushed(iar.itsNodeStack, iar'.itsNodeStack, "InObject")
               /\ iar'.embeddedBsonDocStack = iar.embeddedBsonDocStack
               /\ iar'.embeddedBsonArrayStack = iar.embeddedBsonArrayStack
               /\ iar'.embeddedBsonArrayIteratorStack = iar.embeddedBsonArrayIteratorStack
          ELSE IF resolved("k_document")
          THEN /\ iar'.outcome = Returned
               /\ Pushed(iar.itsNodeStack, iar'.itsNodeStack, "InEmbeddedObject")
               /\ Pushed(iar.embeddedBsonDocStack, iar'.embeddedBsonDocStack, r.elem.sub)
               /\ iar'.embeddedBsonArrayStack = iar.embeddedBsonArrayStack
               /\ Len(iar'.embeddedBsonArrayIteratorStack) =
                    Len(iar.embeddedBsonArrayIteratorStack)
          ELSE IF resolved("k_array")
          THEN /\ iar'.outcome = Returned
               /\ Pushed(iar.itsNodeStack, iar'.itsNodeStack, "InEmbeddedArray")
               /\ Pushed(iar.embeddedBsonArrayStack, iar'.embeddedBsonArrayStack, r.elem.sub)
               /\ Len(iar'.embeddedBsonArrayIteratorStack) =
                    Len(iar.embeddedBsonArrayIteratorStack) + 1
               /\ Top(iar'.embeddedBsonArrayIteratorStack) = begin
               /\ iar'.embeddedBsonDocStack = iar.embeddedBsonDocStack
          ELSE /\ iar'.outcome # Returned
               /\ iar'.itsNodeStack = iar.itsNodeStack
               /\ iar'.embeddedBsonDocStack = iar.embeddedBsonDocStack
               /\ iar'.embeddedBsonArrayStack = iar.embeddedBsonArrayStack
               /\ Len(iar'.embeddedBsonArrayIteratorStack) =
                    Len(iar.embeddedBsonArrayIteratorStack)]_vars

\* A container entry in an array whose first element is an integer: the
\* exception, and the stacks as they were.
C13_Witness ==
  /\ phase = "load"
  /\ last.op = "startNode"
  /\ iar.outcome = NotContainer
  /\ iar.itsNodeStack = <<"Root", "InObject", "InEmbeddedArray">>
  /\ iar.embeddedBsonDocStack = <<>>
  /\ Len(iar.embeddedBsonArrayStack) = 1

\* C14: loadSize. In InEmbeddedArray it returns the number of elements of
\* the array on top of the embedded-array stack, however many have been
\* read, and changes nothing else; in any other state it throws and
\* changes nothing.
C14_LoadSize ==
  [][(phase' = "load" /\ last'.op = "loadSize") =>
       IF Top(iar.itsNodeStack) = "InEmbeddedArray"
       THEN /\ iar'.outcome = Returned
            /\ iar'.size = Len(Top(iar.embeddedBsonArrayStack))
            /\ [iar' EXCEPT !.size = iar.size] = iar
       ELSE /\ iar'.outcome = NotInArray
            /\ [iar' EXCEPT !.outcome = iar.outcome] = iar]_vars

\* The size of an array of three elements is loaded after its first
\* element.
C14_Witness ==
  /\ phase = "load"
  /\ last.op = "loadSize"
  /\ iar.outcome = Returned
  /\ Top(iar.itsNodeStack) = "InEmbeddedArray"
  /\ Top(iar.embeddedBsonArrayIteratorStack) = begin + 1
  /\ iar.size = 3

\* C15: sequential loading without names. A load or a container entry made
\* without a name, in an object as in an array, is answered from the node
\* after the one loaded last at the current level (the first node when none
\* was loaded, the node after it when the last was loaded by name): it
\* returns, a scalar load with that node's value.
C15_Sequential ==
  (phase = "load" /\ last.op \in Reads /\ last.name = nullptr
     /\ walk # <<>> /\ last.misuse = "none") =>
    /\ iar.outcome = Returned
    /\ last.op = "loadValue" => iar.value = last.node.val

\* C16: decoder cursor. The cursor's index is the number of root-level
\* containers the driver has finished, in every state; a finishNode that
\* returns the node stack to Root moves it on by one document, and no other
\* call moves it. A finishNode that empties the node stack returns it to
\* no state at all.
C16_Cursor ==
  /\ [](phase = "load" => iar.curBsonView = rootsRead + 1)
  /\ [][(phase = "load" /\ phase' = "load") =>
          iar'.curBsonView =
            IF /\ last'.op = "finishNode"
               /\ iar'.itsNodeStack # <<>>
               /\ Top(iar'.itsNodeStack) = "Root"
            THEN iar.curBsonView + 1
            ELSE iar.curBsonView]_vars

\* The second of two root-level documents has been finished, other calls
\* having been made inside the documents.
C16_Witness ==
  /\ phase = "load"
  /\ last.op = "finishNode"
  /\ Len(iar.bsonViews) = 2
  /\ iar.curBsonView = 3
  /\ iar.itsNodeStack = <<"Root">>
  /\ nodes > 4

\* C21: the decoder's stacks correspond. The embedded-document stack holds
\* one document for every InEmbeddedObject frame of the node stack, the
\* embedded-array stack and the iterator stack one entry each for every
\* InEmbeddedArray frame. A startNode that returns pushes one frame and, for
\* a document or an array, the matching entries on top of what was there;
\* finishNode pops the top frame and the entries of its kind and nothing
\* else. So the top of either embedded stack is the container the
\* matching startNode entered.
Frames(stack, kind) == Cardinality({k \in 1..Len(stack) : stack[k] = kind})

StacksCorrespond(ar) ==
  /\ Len(ar.embeddedBsonDocStack) = Frames(ar.itsNodeStack, "InEmbeddedObject")
  /\ Len(ar.embeddedBsonArrayStack) = Frames(ar.itsNodeStack, "InEmbeddedArray")
  /\ Len(ar.embeddedBsonArrayIteratorStack)
       = Frames(ar.itsNodeStack, "InEmbeddedArray")

Popped(stack, stack1) == stack # <<>> /\ stack1 = Pop(stack)

C21_StackCorrespondence ==
  /\ [](phase = "load" => StacksCorrespond(iar))
  /\ [][(phase = "load" /\ last'.op = "finishNode") =>
          LET top == Top(iar.itsNodeStack)
          IN /\ Popped(iar.itsNodeStack, iar'.itsNodeStack)
             /\ IF top = "InEmbeddedObject"
                THEN Popped(iar.embeddedBsonDocStack, iar'.embeddedBsonDocStack)
                ELSE iar'.embeddedBsonDocStack = iar.embeddedBsonDocStack
             /\ IF top = "InEmbeddedArray"
                THEN /\ Popped(iar.embeddedBsonArrayStack,
                               iar'.embeddedBsonArrayStack)
                     /\ Popped(iar.embeddedBsonArrayIteratorStack,
                               iar'.embeddedBsonArrayIteratorStack)
                ELSE /\ iar'.embeddedBsonArrayStack = iar.embeddedBsonArrayStack
                     /\ iar'.embeddedBsonArrayIteratorStack
                          = iar.embeddedBsonArrayIteratorStack]_vars
  /\ [][(phase = "load" /\ last'.op = "startNode"
            /\ Len(iar'.itsNodeStack) > Len(iar.itsNodeStack)) =>
          LET top == Top(iar'.itsNodeStack)
          IN /\ Len(iar'.embeddedBsonDocStack) = Len(iar.embeddedBsonDocStack)
                  + (IF top = "InEmbeddedObject" THEN 1 ELSE 0)
             /\ Len(iar'.embeddedBsonArrayStack) = Len(iar.embeddedBsonArrayStack)
                  + (IF top = "InEmbeddedArray" THEN 1 ELSE 0)
             /\ SubSeq(iar'.embeddedBsonDocStack, 1, Len(iar.embeddedBsonDocStack))
                  = iar.embeddedBsonDocStack
             /\ SubSeq(iar'.embeddedBsonArrayStack, 1,
                       Len(iar.embeddedBsonArrayStack))
                  = iar.embeddedBsonArrayStack]_vars

\* An object entered inside an array inside a root object: one document and
\* one array are held, and the document on top is that object.
C21_Witness ==
  /\ phase = "load"
  /\ iar.outcome = Returned
  /\ iar.itsNodeStack = <<"Root", "InObject", "InEmbeddedArray", "InEmbeddedObject">>
  /\ Len(iar.embeddedBsonDocStack) = 1
  /\ Len(iar.embeddedBsonArrayStack) = 1
  /\ Top(iar.embeddedBsonDocStack)
       = Top(iar.embeddedBsonArrayStack)[Top(iar.embeddedBsonArrayIteratorStack) - 1].sub

\* C22: a read made with a pending name resolves the name by key in the
\* current object scope, the root view when the top of the node stack is
\* InObject and the top of the embedded-document stack otherwise: search()
\* ends with the element of that key, or with the lookup error when the
\* scope has no such key, and never with the invalid element. Stated of
\* the reads made inside a container, where search() is executed, with
\* curBsonView on a document.
ObjectScope(ar) ==
  IF Top(ar.itsNodeStack) = "InObject" THEN ar.bsonViews[ar.curBsonView]
  ELSE IF ar.embeddedBsonDocStack = <<>> THEN <<>>
  ELSE Top(ar.embeddedBsonDocStack)

C22_NamedResolution ==
  [][(/\ phase = "load"
      /\ last'.op \in Reads
      /\ iar.itsNextName # nullptr
      /\ Top(iar.itsNodeStack) # "Root"
      /\ Defined(iar)) =>
       LET r == In_search(iar)
           hit == Find(ObjectScope(iar), iar.itsNextName)
       IN IF Valid(hit) THEN r.outcome = Returned /\ r.elem = hit
          ELSE r.outcome = LookupError]_vars

\* C23: the reads of an array are sequential. A read or a container entry
\* made with no pending name while the top of the node stack is
\* InEmbeddedArray resolves the element at that array's iterator and moves
\* the iterator on by one (a read past the last element ends with the
\* bounds error); an array entered starts at begin(); and no other call
\* moves the iterator of any array that stays open: not a named lookup, not
\* loadSize, not the entry or the end of a nested container, not a read in
\* a nested array. So the k-th such read of an array resolves its k-th
\* element, and after a nested container is finished the array goes on at
\* its next element.
ArrayRead(ar, did) ==
  /\ did.op \in Reads
  /\ ar.itsNextName = nullptr
  /\ Top(ar.itsNodeStack) = "InEmbeddedArray"

C23_ArraySequential ==
  [][phase = "load" =>
       LET its == iar.embeddedBsonArrayIteratorStack
           its1 == iar'.embeddedBsonArrayIteratorStack
           arr == Top(iar.embeddedBsonArrayStack)
           it == Top(its)
       IN /\ \A j \in 1..Min(Len(its), Len(its1)) :
               IF ArrayRead(iar, last') /\ j = Len(its) /\ it <= Len(arr)
               THEN its1[j] = its[j] + 1
               ELSE its1[j] = its[j]
          /\ Len(its1) > Len(its) =>
               Len(its1) = Len(its) + 1 /\ Top(its1) = begin
          /\ ArrayRead(iar, last') =>
               IF it > Len(arr) THEN iar'.outcome = BoundsError
               ELSE /\ iar'.outcome # BoundsError
                    /\ (last'.op = "loadValue" /\ iar'.outcome = Returned) =>
                         iar'.value = arr[it].val
                    /\ (last'.op = "startNode" /\ iar'.outcome = Returned) =>
                         IF Top(iar'.itsNodeStack) = "InEmbeddedObject"
                         THEN /\ arr[it].type = "k_document"
                              /\ Top(iar'.embeddedBsonDocStack) = arr[it].sub
                         ELSE /\ arr[it].type = "k_array"
                              /\ Top(iar'.embeddedBsonArrayStack) = arr[it].sub]_vars

\* The third element of an array read after its first element was read and
\* the object that is its second element was entered and finished.
C23_Witness ==
  /\ phase = "load"
  /\ last.op = "loadValue"
  /\ iar.outcome = Returned
  /\ Top(iar.itsNodeStack) = "InEmbeddedArray"
  /\ Top(iar.embeddedBsonArrayIteratorStack) = begin + 3
  /\ Top(iar.embeddedBsonArrayStack)[2].type = "k_document"
  /\ iar.value = Top(iar.embeddedBsonArrayStack)[3].val

AppendedOne(b, b1) ==
  /\ b1.calls = Append(b.calls, Call("append", BsonType("int32_t")))
  /\ Len(b1.stack) = Len(b.stack)
  /\ Pop(b1.stack) = Pop(b.stack)
  /\ Top(b1.stack).isArray = Top(b.stack).isArray
  /\ Top(b1.stack).key = Top(b.stack).key
  /\ Len(Top(b1.stack).elems) = Len(Top(b.stack).elems) + 1
  /\ SubSeq(Top(b1.stack).elems, 1, Len(Top(b.stack).elems)) = Top(b.stack).elems
  /\ LastElement(b1).type = BsonType("int32_t")
  /\ LastElement(b1).val = 1

C25_LeafFrame ==
  [][phase = "save" =>
       /\ last'.op = "saveValue" =>
            /\ AppendedOne(oar.itsBuilder, oar'.itsBuilder)
            /\ oar' = [oar EXCEPT !.itsBuilder = oar'.itsBuilder]
       /\ last'.op = "setNextName" =>
            /\ last'.name \in Names
            /\ oar' = [oar EXCEPT !.itsNextName = last'.name]]_vars

\* A value saved into a root-level array while a name given earlier is
\* still pending.
C25_Witness ==
  /\ phase = "save"
  /\ last.op = "saveValue"
  /\ oar.itsNextName # nullptr
  /\ oar.itsNodeStack = <<"Root", "InArray">>
  /\ Top(oar.itsBuilder.stack).isArray
  /\ Len(Top(oar.itsBuilder.stack).elems) = 1

\* ------------------------------------------- claims on the constructor
\* C26: over a stream that is m documents one after another, each beginning
\* with its length, the constructor records exactly m views, the i-th the
\* i-th document; every turn of its loop records the next document and
\* moves the read position on by that document's length, until the end of
\* the stream.
RECURSIVE TotalLength(_)
TotalLength(docs) ==
  IF docs = <<>> THEN 0 ELSE ByteLength(docs[1]) + TotalLength(Tail(docs))

C26_Framing ==
  /\ phase \in {"construct", "load"}
  /\ phase = "construct" =>
       /\ nodes <= Len(saved)
       /\ iar.bsonViews = SubSeq(saved, 1, nodes)
       /\ iar.itsReadStream.tellg = TotalLength(iar.bsonViews)
  /\ phase = "load" =>
       /\ Len(iar.bsonViews) = Len(saved)
       /\ iar = BSONInputArchive(oar.itsWriteStream)
       /\ \A i \in 1..Len(saved) : iar.bsonViews[i] = saved[i]

\* ---------------------------------------- claims on the builder's calls
\* C27: when the encoder is destroyed, what the builder still holds, written
\* and not yet flushed, is written to the output stream: the stream then
\* ends with the builder's document.
HoldsContent(b) == view_document(b) # <<>> \/ Len(b.stack) > 1

C27_DestructorFlushes ==
  [][(phase = "save" /\ phase' = "destroyed" /\ HoldsContent(oar.itsBuilder)) =>
       /\ Len(oar'.itsWriteStream) = Len(oar.itsWriteStream) + 1
       /\ Top(oar'.itsWriteStream).elems
            = view_document(oar.itsBuilder)]_vars

\* C28: in the builder calls the encoder makes, every key_owned is followed
\* at once by the value of that key, an append, an open_document or an
\* open_array: never by another key, by a close or by the flush of the
\* document, the keys written for root-level containers included.
ValueCalls == {"append", "open_document", "open_array"}

C28_KeyThenValue ==
  LET calls == oar.itsBuilder.calls
  IN \A k \in 1..(Len(calls) - 1) :
       calls[k].op = "key_owned" => calls[k + 1].op \in ValueCalls

\* C29: no root-level value leaks into a later document. Whenever the node
\* stack is at Root between two calls the builder holds no key and no
\* value that was not flushed, and every document on the stream holds the
\* fields of one root-level object and nothing else: the i-th document
\* written is the i-th root-level object saved.
RootObjects(roots) == SelectSeq(roots, LAMBDA node : node.kind = "object")

BuilderEmpty(b) ==
  /\ view_document(b) = <<>>
  /\ Len(b.stack) = 1
  /\ b.userKey = nullptr

C29_NoLeak ==
  /\ oar.itsNodeStack = <<"Root">> => BuilderEmpty(oar.itsBuilder)
  /\ \A k \in 1..Len(oar.itsWriteStream) :
       /\ k <= Len(RootObjects(saved))
       /\ oar.itsWriteStream[k].elems = Expected(RootObjects(saved)[k])

\* The containers left open by a sequence of builder calls, outermost
\* first, or Unbalanced when a close meets no open of its kind on top or
\* the document is flushed with a container open.
Unbalanced == <<"unbalanced">>

RECURSIVE Replay(_, _, _)
Replay(calls, k, open) ==
  IF k > Len(calls) THEN open
  ELSE LET op == calls[k].op
       IN CASE op = "open_document" -> Replay(calls, k + 1, Append(open, "document"))
            [] op = "open_array" -> Replay(calls, k + 1, Append(open, "array"))
            [] op = "close_document" ->
                 IF open # <<>> /\ Top(open) = "document"
                 THEN Replay(calls, k + 1, Pop(open)) ELSE Unbalanced
            [] op = "close_array" ->
                 IF open # <<>> /\ Top(open) = "array"
                 THEN Replay(calls, k + 1, Pop(open)) ELSE Unbalanced
            [] op \in {"view_document", "clear"} ->
                 IF open = <<>> THEN Replay(calls, k + 1, open) ELSE Unbalanced
            [] OTHER -> Replay(calls, k + 1, open)

Unclosed(calls) == Replay(calls, 1, <<>>)

\* The containers the frames of the node stack have open in the builder:
\* an array for a frame InArray, a document for a frame InObject below the
\* root-level container.
HasOpen(stack, k) ==
  stack[k] = "InArray" \/ (stack[k] = "InObject" /\ k > 2)

FrameContainers(stack) ==
  LET kinds == [k \in 1..Len(stack) |->
                  IF stack[k] = "InArray" THEN "array"
                  ELSE IF HasOpen(stack, k) THEN "document"
                  ELSE "none"]
  IN SelectSeq(kinds, LAMBDA kind : kind # "none")

WellNested(ar) == Unclosed(ar.itsBuilder.calls) = FrameContainers(ar.itsNodeStack)

\* C30 as claimed: the opens and closes the encoder makes are balanced and
\* nested in every prefix, every close of the kind of the last container
\* left open, and the container opened for a frame is closed by the
\* finishNode of that frame: after a finishNode the containers left open
\* are those of the frames left on the node stack.
C30_WellNested ==
  phase = "save" =>
    /\ Unclosed(oar.itsBuilder.calls) # Unbalanced
    /\ last.op = "finishNode" => WellNested(oar)

\* C30: the same of every sequence of calls in which makeArray is not
\* called on a frame whose container is open in the builder (a frame
\* InArray, or InObject below the root-level container): every other call
\* keeps the opens and closes nested and in step with the frames.
C30_WellNestedButMakeArray ==
  /\ WellNested(BSONOutputArchive)
  /\ [][(/\ phase = "save"
          /\ phase' = "save"
          /\ oar.itsNodeStack # <<>>
          /\ WellNested(oar)
          /\ ~(/\ last'.op = "makeArray"
               /\ HasOpen(oar.itsNodeStack, Len(oar.itsNodeStack)))) =>
           WellNested(oar')]_vars

\* An empty object inside an array inside a root-level object, all but the
\* root-level object finished: an array and a document opened and closed,
\* the document inside the array.
C30_Witness ==
  /\ phase = "save"
  /\ last.op = "finishNode"
  /\ oar.itsNodeStack = <<"Root", "InObject">>
  /\ Unclosed(oar.itsBuilder.calls) = <<>>
  /\ \E i, j \in 1..Len(oar.itsBuilder.calls) :
       /\ i + 3 = j
       /\ oar.itsBuilder.calls[i].op = "open_array"
       /\ oar.itsBuilder.calls[i + 1].op = "open_document"
       /\ oar.itsBuilder.calls[i + 2].op = "close_document"
       /\ oar.itsBuilder.calls[j].op = "close_array"

\* ------------------------------------- claims on the decoder's bounds
\* C31: the decoder does not read through curBsonView when it is past the
\* last document. A container entered at Root, or a read made in it, when
\* every document has been consumed or the stream held none, ends with an
\* exception of the archive, and with no access past bsonViews.
PastLast(ar) == ar.curBsonView > Len(ar.bsonViews)

C31_CursorBounds ==
  phase = "load" =>
    /\ iar.outcome \notin {SegFault, GarbageElement}
    /\ (/\ last.op \in Reads
        /\ PastLast(iar)
        /\ Len(iar.itsNodeStack) <= 2) => iar.outcome # Returned

\* C32: the constructor's loop ends for every finite stream, whatever the
\* length prefixes in it: it comes to its end or leaves with an error.
C32_Terminates == <>(phase # "construct")

\* C33: the decoder's node stack, after any calls: it is not empty, its
\* bottom entry is Root, Root is nowhere else in it, and InObject is only
\* directly above Root; no finishNode pops Root.
C33_NodeStack ==
  phase = "load" =>
    LET stack == iar.itsNodeStack
    IN /\ stack # <<>>
       /\ stack[1] = "Root"
       /\ \A k \in 2..Len(stack) : stack[k] # "Root"
       /\ \A k \in 1..Len(stack) : stack[k] = "InObject" => k = 2

====
